---- MODULE Spec2Model ----
(***************************************************************************)
\* Verification model of the webflow-scraper mirroring engine:
\*   scrape.mjs (main pass), fix-links.mjs (link repair pass),
\*   rescrape-blank.mjs (targeted re-mirror).
\* 
\* JavaScript strings are modelled as sequences of one-character strings,
\* so that prefix tests, splitting, slicing and replacement are computed
\* the way the code computes them.
(***************************************************************************)
EXTENDS Integers, Sequences, FiniteSets, TLC

VARIABLES
  \* ---- PathMapper harness (safeFileName applied to one URL path)
  urlPath,         \* the argument
  pathPc,          \* "input" | "mapped"
  localName,       \* safeFileName(urlPath)
  localNameSlash,  \* safeFileName(urlPath + "/")
  \* ---- run report (offline/_report.json) across runs of scrape.mjs
  reportFile,      \* NoFile, or the parsed content of _report.json
  runNo,           \* runs of main() completed so far
  lastResults,     \* the results scrapeUrls returned to the last run
  prevReport,      \* _report.json as the last run found it
  \* ---- scrapeUrls: one batch of page tasks behind pLimit(CONCURRENCY)
  batchUrls,       \* urlsToScrape
  batchPc,         \* "running" | "returned" | "rejected"
  taskPc,          \* per task: where its async function stands
  taskResult,      \* per task: the value its promise was fulfilled with
  openPages,       \* tasks whose Playwright page is open
  indexWritten,    \* tasks that have written their page's index.html
  \* ---- AssetStore and the download phase of one page after another
  downloadedAssets, \* the Map absolute URL -> LocalPath
  assetFiles,      \* files under offline/, as a Map LocalPath -> content
  fetches,         \* Map absolute URL -> number of fetch() calls issued for it
  callLog,         \* what downloadAsset calls that returned a path did
  pagesDone,       \* pages whose download phase is over
  pagePc,          \* "idle" | "observed" | "rewriting"
  pageRefs,        \* assetUrls of the page in hand, in insertion order
  dlTasks,         \* the download tasks of the phase in hand
  assetMap,        \* rewriteHtml's assetMap: reference -> LocalPath
  cssFiles,        \* rewriteHtml's cssFiles: LocalPath -> { content, url }
  \* ---- the mirror's page documents, the main pass and the link-repair pass
  mirrorDocs,      \* page directory -> text of its index.html
  rendered,        \* page directory -> the URL mirrored there and the href it held
  mirrorCount,     \* pages mirrored so far
  repairsSince,    \* repair passes run since the last page was mirrored
  lastWrites,      \* page directories whose index.html the last repair pass wrote
  \* ---- rewriteHtml's attribute rewriting, applied to one tag
  rwIn,            \* the tag of the input HTML: opening, attribute, quote, value
  rwMap,           \* the page's assetMap when the rewriting starts
  rwOut,           \* the HTML rewriteHtml returns
  rwPc,            \* "input" | "rewritten"
  \* ---- the page transform applied to one document, then to its own output
  txIn,            \* the rendered document
  txMap,           \* the assetMap of both applications
  txOnce,          \* the transform of txIn
  txTwice,         \* the transform of txOnce
  txPc,            \* "input" | "once" | "twice"
  \* ---- the url() rewrite applied to one stylesheet, then to its own output
  cssIn,           \* the stylesheet text read from disk
  cssMap,          \* the assetMap of both rewrites
  cssUrlIn,        \* the URL the stylesheet was referenced by
  cssOnce,         \* the rewrite of cssIn
  cssTwice,        \* the rewrite of cssOnce
  cssPc,           \* "input" | "once" | "twice" | "threw" | "threw again"
  \* ---- one page task whose document links one stylesheet
  shHref,          \* the href of the stylesheet link
  shCss,           \* the text the server sends for the stylesheet
  shPc,            \* "link" | "refs" | "done"
  shMemo,          \* downloadedAssets
  shFiles,         \* the asset directory: LocalPath -> text
  shMap,           \* assetMap
  shCssFiles,      \* cssFiles
  shRest,          \* the stylesheet references still to download
  shLog,           \* the fetches issued and how they settled
  shResult,        \* "none" | "ok" | "failed": the page task's result
  shIndex,         \* the page's index.html has been written
  \* ---- one call of a link resolver
  rsHref,          \* the href of the document
  rsPage,          \* the URL path of the page the document belongs to
  rsDisk,          \* the mirror at the call
  rsOut,           \* the document the resolver returns
  rsPc,            \* "input" | "main" | "repair"
  \* ---- findBlankPages on one stored page document
  bpShape,         \* the shape the stored document was built from
  bpDoc,           \* the text of the page's index.html
  bpFlagged,       \* the last scan flagged the page
  bpScans,         \* scans made so far
  bpPc,            \* "stored" | "scanned"
  \* ---- API capture during mirroring and replay in a mirrored page
  apFiles,         \* offline/_api_data: file path -> stored exchange
  apResponses,     \* the Map apiResponses
  apCaptures,      \* requests the route handler has seen
  apWritten,       \* every exchange file as it was when written
  apReply,         \* what the shim gave the page's last call
  apAsked,         \* the URL of the page's last call
  apFrom,          \* the URL path of the page that made it
  \* ---- the asset directory over several runs
  csFiles,         \* offline/_assets: LocalPath -> the URL and the run it was written for
  csMemo,          \* downloadedAssets of the current run
  csRun,           \* the number of the current run
  csScript,        \* "scrape" | "rescrape": the script of the current run
  csStores,        \* downloadAsset calls made so far
  csLog,           \* the downloads that were written, with what was on disk before
  \* ---- the page directories of the tasks of one pool
  plUrls,          \* the URL list of the run
  plSize,          \* the size of the pool
  plPc,            \* task -> queued | rendering | written | returned
  plFiles,         \* page directory -> the task that wrote its index.html last
  \* ---- a stored page that is flagged and mirrored again
  fpPath,          \* pathname of the page's URL
  fpFile,          \* the index.html the page was stored in
  fpUrlPath,       \* filePathToUrlPath of that file
  fpName,          \* safeFileName of fpUrlPath
  fpDir,           \* the directory the re-mirror writes into
  fpPc             \* input | stored | flagged | rescraped

pathVars == <<urlPath, pathPc, localName, localNameSlash>>
reportVars == <<reportFile, runNo, lastResults, prevReport>>
batchVars == <<batchUrls, batchPc, taskPc, taskResult, openPages, indexWritten>>
storeVars == <<downloadedAssets, assetFiles, fetches, callLog>>
phaseVars == <<pagesDone, pagePc, pageRefs, dlTasks, assetMap, cssFiles>>
assetVars == <<storeVars, phaseVars>>
linkVars == <<mirrorDocs, rendered, mirrorCount, repairsSince, lastWrites>>

tagVars == <<rwIn, rwMap, rwOut, rwPc>>

transformVars == <<txIn, txMap, txOnce, txTwice, txPc>>

cssVars == <<cssIn, cssMap, cssUrlIn, cssOnce, cssTwice, cssPc>>

sheetVars == <<shHref, shCss, shPc, shMemo, shFiles, shMap, shCssFiles, shRest, shLog, shResult, shIndex>>

resolveVars == <<rsHref, rsPage, rsDisk, rsOut, rsPc>>

blankVars == <<bpShape, bpDoc, bpFlagged, bpScans, bpPc>>

apiVars == <<apFiles, apResponses, apCaptures, apWritten, apReply, apAsked, apFrom>>

cacheVars == <<csFiles, csMemo, csRun, csScript, csStores, csLog>>

poolVars == <<plUrls, plSize, plPc, plFiles>>

foundVars == <<fpPath, fpFile, fpUrlPath, fpName, fpDir, fpPc>>

vars == <<pathVars, reportVars, batchVars, assetVars, linkVars, tagVars, transformVars, cssVars, sheetVars, resolveVars, blankVars, apiVars, cacheVars, poolVars, foundVars>>

\* what the operations of one component leave alone
notPath == <<reportVars, batchVars, assetVars, linkVars, tagVars, transformVars, cssVars, sheetVars, resolveVars, blankVars, apiVars, cacheVars, poolVars, foundVars>>
notReport == <<pathVars, batchVars, assetVars, linkVars, tagVars, transformVars, cssVars, sheetVars, resolveVars, blankVars, apiVars, cacheVars, poolVars, foundVars>>
notBatch == <<pathVars, reportVars, assetVars, linkVars, tagVars, transformVars, cssVars, sheetVars, resolveVars, blankVars, apiVars, cacheVars, poolVars, foundVars>>
notAsset == <<pathVars, reportVars, batchVars, linkVars, tagVars, transformVars, cssVars, sheetVars, resolveVars, blankVars, apiVars, cacheVars, poolVars, foundVars>>
notLink == <<pathVars, reportVars, batchVars, assetVars, tagVars, transformVars, cssVars, sheetVars, resolveVars, blankVars, apiVars, cacheVars, poolVars, foundVars>>
notTag == <<pathVars, reportVars, batchVars, assetVars, linkVars, transformVars, cssVars, sheetVars, resolveVars, blankVars, apiVars, cacheVars, poolVars, foundVars>>
notTransform == <<pathVars, reportVars, batchVars, assetVars, linkVars, tagVars, cssVars, sheetVars, resolveVars, blankVars, apiVars, cacheVars, poolVars, foundVars>>
notCss == <<pathVars, reportVars, batchVars, assetVars, linkVars, tagVars, transformVars, sheetVars, resolveVars, blankVars, apiVars, cacheVars, poolVars, foundVars>>
notSheet == <<pathVars, reportVars, batchVars, assetVars, linkVars, tagVars, transformVars, cssVars, resolveVars, blankVars, apiVars, cacheVars, poolVars, foundVars>>
notResolve == <<pathVars, reportVars, batchVars, assetVars, linkVars, tagVars, transformVars, cssVars, sheetVars, blankVars, apiVars, cacheVars, poolVars, foundVars>>
notBlank == <<pathVars, reportVars, batchVars, assetVars, linkVars, tagVars, transformVars, cssVars, sheetVars, resolveVars, apiVars, cacheVars, poolVars, foundVars>>
notApi == <<pathVars, reportVars, batchVars, assetVars, linkVars, tagVars, transformVars, cssVars, sheetVars, resolveVars, blankVars, cacheVars, poolVars, foundVars>>
notCache == <<pathVars, reportVars, batchVars, assetVars, linkVars, tagVars, transformVars, cssVars, sheetVars, resolveVars, blankVars, apiVars, poolVars, foundVars>>
notPool == <<pathVars, reportVars, batchVars, assetVars, linkVars, tagVars, transformVars, cssVars, sheetVars, resolveVars, blankVars, apiVars, cacheVars, foundVars>>
notFound == <<pathVars, reportVars, batchVars, assetVars, linkVars, tagVars, transformVars, cssVars, sheetVars, resolveVars, blankVars, apiVars, cacheVars, poolVars>>

----------------------------------------------------------------------------
\* Bounds of the model

MaxPathLen == 4
MaxRuns == 2
MaxListLen == 2
MaxBatchLen == 2
MaxPages == 2
MaxRefs == 2
MaxMirrors == 3
MaxRepairs == 2
MaxScans == 2
MaxCaptures == 2
MaxStores == 3
MaxAssetRuns == 2
MaxPoolSize == 2
MaxPoolLen == 3
MaxStoredLen == 4

----------------------------------------------------------------------------
\* String primitives (String.prototype.*)

\* All strings over alphabet A of length at most n
StringsUpTo(A, n) == UNION { [1..k -> A] : k \in 0..n }

\* s.startsWith(pre)
StartsWith(s, pre) ==
  /\ Len(pre) <= Len(s)
  /\ SubSeq(s, 1, Len(pre)) = pre

\* s.endsWith(suf)
EndsWith(s, suf) ==
  /\ Len(suf) <= Len(s)
  /\ SubSeq(s, Len(s) - Len(suf) + 1, Len(s)) = suf

\* s.startsWith(pat, i - 1): pat stands at position i of s
HasAt(s, i, pat) ==
  /\ i + Len(pat) - 1 <= Len(s)
  /\ SubSeq(s, i, i + Len(pat) - 1) = pat

\* s.indexOf(pat), 1-based; 0 when pat does not occur
IndexOf(s, pat) ==
  LET hits == { i \in 1..(Len(s) - Len(pat) + 1) : SubSeq(s, i, i + Len(pat) - 1) = pat }
  IN IF hits = {} THEN 0 ELSE CHOOSE i \in hits : \A j \in hits : i <= j

\* s.includes(pat)
Includes(s, pat) == IndexOf(s, pat) # 0

\* s.split(c)[0] for a one-character separator c
SplitFirst(s, c) ==
  LET i == IndexOf(s, <<c>>)
  IN IF i = 0 THEN s ELSE SubSeq(s, 1, i - 1)

\* s.slice(0, -1)
DropLast(s) == SubSeq(s, 1, Len(s) - 1)

\* s.replace(/^\/+/, "")
RECURSIVE StripLeadingSlashes(_)
StripLeadingSlashes(s) ==
  IF s # <<>> /\ Head(s) = "/" THEN StripLeadingSlashes(Tail(s)) ELSE s

\* the text a replacement string stands for: "$$" is "$", "$&" the matched text,
\* "$'" the text after the match (the pattern for the text before the match is
\* written with a character no string of this model holds)
RECURSIVE Substitute(_, _, _)
Substitute(rep, matched, post) ==
  IF rep = <<>> THEN <<>>
  ELSE IF Len(rep) >= 2 /\ rep[1] = "$" /\ rep[2] \in {"$", "&", "'"}
  THEN (CASE rep[2] = "$" -> <<"$">>
          [] rep[2] = "&" -> matched
          [] OTHER -> post)
         \o Substitute(SubSeq(rep, 3, Len(rep)), matched, post)
  ELSE <<rep[1]>> \o Substitute(Tail(rep), matched, post)

\* s.replace(pat, rep) with a string pattern: the first occurrence only
ReplaceFirst(s, pat, rep) ==
  LET at(i) ==
        IF i = 0 THEN s
        ELSE SubSeq(s, 1, i - 1)
               \o Substitute(rep, pat, SubSeq(s, i + Len(pat), Len(s)))
               \o SubSeq(s, i + Len(pat), Len(s))
  IN at(IndexOf(s, pat))

----------------------------------------------------------------------------
\* PathMapper: safeFileName

INDEX == <<"i", "n", "d", "e", "x">>

\* a plausible slip: the trailing slash is kept
safeFileName_KeepSlash(p) ==
  LET p0 == SplitFirst(SplitFirst(p, "?"), "#")
  IN IF p0 = <<>> THEN INDEX ELSE StripLeadingSlashes(p0)

safeFileName(p) ==
  LET p0 == SplitFirst(SplitFirst(p, "?"), "#")
      p1 == IF EndsWith(p0, <<"/">>) THEN DropLast(p0) ELSE p0
  IN IF p1 = <<>> THEN INDEX ELSE StripLeadingSlashes(p1)

PathChars == {"/", "a", "?", "#"}

PathInit ==
  /\ urlPath \in StringsUpTo(PathChars, MaxPathLen)
  /\ pathPc = "input"
  /\ localName = <<>>
  /\ localNameSlash = <<>>

\* the mapper is applied to the path and to the path with one more slash
MapPath ==
  /\ pathPc = "input"
  /\ pathPc' = "mapped"
  /\ localName' = safeFileName(urlPath)
  /\ localNameSlash' = safeFileName(urlPath \o <<"/">>)
  /\ UNCHANGED urlPath
  /\ UNCHANGED notPath

PathNext == MapPath

----------------------------------------------------------------------------
\* URLs (new URL(...)) and the OriginNormalizer

HTTP == <<"h", "t", "t", "p", ":", "/", "/">>
HTTPS == <<"h", "t", "t", "p", "s", ":", "/", "/">>
WWW == <<"w", "w", "w", ".">>
SITE == <<"f", "r", "u", "i", "t", "p", "u", "n", "c", "h", ".", "a", "i">>
ELSEWHERE == <<"x", ".", "i", "o">>

\* const BASE = "https://www.fruitpunch.ai"
BASE == HTTPS \o WWW \o SITE

\* index of the first character of s that is in cs, Len(s) + 1 when there is none
FirstOf(s, cs) ==
  LET hits == { i \in 1..Len(s) : s[i] \in cs }
  IN IF hits = {} THEN Len(s) + 1 ELSE CHOOSE i \in hits : \A j \in hits : i <= j

InvalidUrl ==
  [valid |-> FALSE, origin |-> <<>>, hostname |-> <<>>, pathname |-> <<>>, href |-> <<>>]

\* s.split("/")
RECURSIVE SplitSlash(_)
SplitSlash(s) ==
  LET i == IndexOf(s, <<"/">>)
  IN IF i = 0 THEN <<s>>
     ELSE <<SubSeq(s, 1, i - 1)>> \o SplitSlash(SubSeq(s, i + 1, Len(s)))

\* segs.join("/")
RECURSIVE JoinSlash(_)
JoinSlash(segs) ==
  IF segs = <<>> THEN <<>>
  ELSE IF Len(segs) = 1 THEN segs[1]
  ELSE segs[1] \o <<"/">> \o JoinSlash(Tail(segs))

\* the URL parser's handling of "." and ".." segments; done is the path built so
\* far, segs the segments still to read
RECURSIVE DotWalk(_, _)
DotWalk(done, segs) ==
  IF segs = <<>> THEN done
  ELSE LET seg == Head(segs)
           last == Len(segs) = 1
       IN IF seg = <<".", ".">>
          THEN DotWalk((IF done = <<>> THEN done ELSE DropLast(done))
                         \o (IF last THEN << <<>> >> ELSE <<>>), Tail(segs))
          ELSE IF seg = <<".">>
          THEN DotWalk(done \o (IF last THEN << <<>> >> ELSE <<>>), Tail(segs))
          ELSE DotWalk(Append(done, seg), Tail(segs))

\* the pathname of a parsed URL: "" becomes "/", dot segments are resolved
RemoveDotSegments(path) ==
  IF path = <<>> THEN <<"/">>
  ELSE <<"/">> \o JoinSlash(DotWalk(<<>>, SplitSlash(Tail(path))))

\* new URL(s) for an http(s) URL: valid is FALSE where the constructor throws
ParseUrl(s) ==
  LET scheme == IF StartsWith(s, HTTPS) THEN HTTPS
                ELSE IF StartsWith(s, HTTP) THEN HTTP ELSE <<>>
      rest == SubSeq(s, Len(scheme) + 1, Len(s))
      hostEnd == FirstOf(rest, {"/", "?", "#"})
      host == SubSeq(rest, 1, hostEnd - 1)
      tail == SubSeq(rest, hostEnd, Len(rest))
      pathEnd == FirstOf(tail, {"?", "#"})
      search == SubSeq(tail, pathEnd, Len(tail))
      parsed(path) ==
        IF scheme = <<>> \/ host = <<>>
        THEN InvalidUrl
        ELSE [valid |-> TRUE, origin |-> scheme \o host, hostname |-> host,
              pathname |-> path, href |-> scheme \o host \o path \o search]
  IN parsed(RemoveDotSegments(SubSeq(tail, 1, pathEnd - 1)))

\* path.dirname of a URL path, with its closing slash: "/a/b" -> "/a/"
UrlDir(pathname) ==
  LET slashes == { i \in 1..Len(pathname) : pathname[i] = "/" }
  IN IF slashes = {} THEN <<"/">>
     ELSE SubSeq(pathname, 1, CHOOSE i \in slashes : \A j \in slashes : j <= i)

\* new URL(url, base) for the reference forms the pages hold: absolute http(s),
\* protocol-relative, root-relative and path-relative.  A base that is not an
\* absolute URL makes the constructor throw, whatever url is.
ResolveUrl(url, base) ==
  LET against(b) ==
        LET scheme == SubSeq(b.origin, 1, Len(b.origin) - Len(b.hostname))
            bare == SubSeq(b.href, 1, FirstOf(b.href, {"?", "#"}) - 1)
        IN IF ~b.valid THEN InvalidUrl
           ELSE IF url = <<>> THEN b
           ELSE ParseUrl(
                  IF StartsWith(url, HTTPS) \/ StartsWith(url, HTTP) THEN url
                  ELSE IF StartsWith(url, <<"/", "/">>)
                       THEN scheme \o SubSeq(url, 3, Len(url))
                  ELSE IF StartsWith(url, <<"/">>) THEN b.origin \o url
                  ELSE IF Head(url) \in {"?", "#"} THEN bare \o url
                  ELSE b.origin \o UrlDir(b.pathname) \o url)
  IN against(ParseUrl(base))

\* normalizeOrigin: hostname.replace(/^www\./, "")
normalizeOrigin(origin) ==
  LET strip(hostname) ==
        IF StartsWith(hostname, WWW)
        THEN SubSeq(origin, 1, Len(origin) - Len(hostname))
               \o SubSeq(hostname, Len(WWW) + 1, Len(hostname))
        ELSE origin
  IN strip(ParseUrl(origin).hostname)

----------------------------------------------------------------------------
\* AssetStore: getAssetPath and the synchronous parts of downloadAsset

LOWER == {"a", "b", "c", "d", "e", "f", "g", "h", "i", "j", "k", "l", "m",
          "n", "o", "p", "q", "r", "s", "t", "u", "v", "w", "x", "y", "z"}
UPPER == {"A", "B", "C", "D", "E", "F", "G", "H", "I", "J", "K", "L", "M",
          "N", "O", "P", "Q", "R", "S", "T", "U", "V", "W", "X", "Y", "Z"}
DIGIT == {"0", "1", "2", "3", "4", "5", "6", "7", "8", "9"}

\* s.replace(/[^...]/g, "_") for the class `keep`
Sanitize(s, keep) == [i \in 1..Len(s) |-> IF s[i] \in keep THEN s[i] ELSE "_"]

\* s.substring(0, n)
Substring0(s, n) == SubSeq(s, 1, IF Len(s) < n THEN Len(s) ELSE n)

LastIndexOf(s, c) ==
  LET hits == { i \in 1..Len(s) : s[i] = c }
  IN IF hits = {} THEN 0 ELSE CHOOSE i \in hits : \A j \in hits : j <= i

\* path.basename(p)
PathBasename(p) == SubSeq(p, LastIndexOf(p, "/") + 1, Len(p))

\* path.dirname(p) of an absolute path
PathDirname(p) ==
  LET i == LastIndexOf(p, "/")
  IN IF i <= 1 THEN <<"/">> ELSE SubSeq(p, 1, i - 1)

\* path.extname(p): from the last "." of the basename, "" when there is none or
\* when it is the basename's first character
PathExtname(p) ==
  LET b == PathBasename(p)
      i == LastIndexOf(b, ".")
  IN IF i <= 1 THEN <<>> ELSE SubSeq(b, i, Len(b))

\* .substring(0, 50) in getAssetPath's catch branch
NameCut == 50

\* the body of getAssetPath for the parsed URL u of the argument url: the try
\* branch when the parse succeeded, the catch branch when new URL threw
AssetFileName(u, url) ==
  LET ext0 == PathExtname(u.pathname)
      ext == IF ext0 = <<>> THEN <<".", "h", "t", "m", "l">> ELSE ext0
      b0 == PathBasename(u.pathname)
      b1 == IF EndsWith(b0, ext) THEN SubSeq(b0, 1, Len(b0) - Len(ext)) ELSE b0
      basename == IF b1 = <<>> THEN INDEX ELSE b1
      d0 == PathDirname(u.pathname)
      d1 == IF StartsWith(d0, <<"/">>) THEN Tail(d0) ELSE d0
      dir == [i \in 1..Len(d1) |-> IF d1[i] = "/" THEN "_" ELSE d1[i]]
      filename == IF dir # <<>> THEN dir \o <<"_">> \o basename \o ext
                  ELSE basename \o ext
  IN IF u.valid
     THEN Sanitize(filename, LOWER \cup UPPER \cup DIGIT \cup {".", "_", "-"})
     ELSE <<"a", "s", "s", "e", "t", "_">>
            \o Substring0(Sanitize(url, LOWER \cup UPPER \cup DIGIT), NameCut)

\* getAssetPath(url) of scrape.mjs.  downloadAsset passes urlObj.pathname, for
\* which new URL() throws, so the catch branch names the file
getAssetPath(url) == AssetFileName(ParseUrl(url), url)

\* getAssetPath(pathname) of rescrape-blank.mjs: new URL(pathname, 'http://example.com')
getAssetPath_rescrape(pathname) ==
  AssetFileName(ResolveUrl(pathname, <<"h", "t", "t", "p", ":", "/", "/", "e", "x", "a", "m", "p", "l", "e", ".", "c", "o", "m">>), pathname)

\* content types a response can declare
CT_CSS == <<"t", "e", "x", "t", "/", "c", "s", "s">>
CT_WOFF2 == <<"f", "o", "n", "t", "/", "w", "o", "f", "f", "2">>
ContentTypes == {CT_CSS, CT_WOFF2}

\* the extension downloadAsset gives the file: that of the URL path, else one
\* inferred from the content type
AssetExt(pathname, contentType) ==
  LET ext == PathExtname(pathname)
      has(x) == Includes(contentType, x)
  IN IF ext # <<>> THEN ext
     ELSE IF has(<<"c", "s", "s">>) THEN <<".", "c", "s", "s">>
     ELSE IF has(<<"j", "a", "v", "a", "s", "c", "r", "i", "p", "t">>) THEN <<".", "j", "s">>
     ELSE IF has(<<"i", "m", "a", "g", "e">>)
          THEN IF has(<<"p", "n", "g">>) THEN <<".", "p", "n", "g">>
               ELSE IF has(<<"j", "p", "g">>) \/ has(<<"j", "p", "e", "g">>) THEN <<".", "j", "p", "g">>
               ELSE IF has(<<"s", "v", "g">>) THEN <<".", "s", "v", "g">>
               ELSE IF has(<<"g", "i", "f">>) THEN <<".", "g", "i", "f">>
               ELSE IF has(<<"w", "e", "b", "p">>) THEN <<".", "w", "e", "b", "p">>
               ELSE <<>>
     ELSE IF has(<<"f", "o", "n", "t">>) \/ has(<<"w", "o", "f", "f">>)
          THEN IF has(<<"w", "o", "f", "f", "2">>) THEN <<".", "w", "o", "f", "f", "2">>
               ELSE IF has(<<"w", "o", "f", "f">>) THEN <<".", "w", "o", "f", "f">>
               ELSE IF has(<<"t", "t", "f">>) THEN <<".", "t", "t", "f">>
               ELSE IF has(<<"o", "t", "f">>) THEN <<".", "o", "t", "f">>
               ELSE <<>>
     ELSE <<>>

\* path.relative(OUT, path.join(ASSETS_DIR, filename))
ASSETS == <<"_", "a", "s", "s", "e", "t", "s", "/">>
AssetLocalPath(pathname, contentType) ==
  ASSETS \o getAssetPath(pathname) \o AssetExt(pathname, contentType)

\* the same in rescrape-blank.mjs
AssetLocalPath_rescrape(pathname, contentType) ==
  ASSETS \o getAssetPath_rescrape(pathname) \o AssetExt(pathname, contentType)

\* hosts downloadAsset accepts besides the site's own
CommonCDNs ==
  { <<"c", "d", "n", ".", "p", "r", "o", "d", ".", "w", "e", "b", "s", "i", "t", "e", "-", "f", "i", "l", "e", "s", ".", "c", "o", "m">>, <<"f", "o", "n", "t", "s", ".", "g", "o", "o", "g", "l", "e", "a", "p", "i", "s", ".", "c", "o", "m">>, <<"f", "o", "n", "t", "s", ".", "g", "s", "t", "a", "t", "i", "c", ".", "c", "o", "m">>,
    <<"c", "d", "n", ".", "j", "s", "d", "e", "l", "i", "v", "r", ".", "n", "e", "t">>, <<"u", "n", "p", "k", "g", ".", "c", "o", "m">>, <<"a", "j", "a", "x", ".", "g", "o", "o", "g", "l", "e", "a", "p", "i", "s", ".", "c", "o", "m">>,
    <<"d", "o", "w", "n", "l", "o", "a", "d", "s", ".", "m", "a", "i", "l", "c", "h", "i", "m", "p", ".", "c", "o", "m">>, <<"c", "h", "i", "m", "p", "s", "t", "a", "t", "i", "c", ".", "c", "o", "m">> }

\* isSameOrigin || isCommonCDN
Eligible(u) ==
  \/ normalizeOrigin(u.origin) = normalizeOrigin(BASE)
  \/ \E h \in CommonCDNs : Includes(u.hostname, h)

\* a Map as a set of [key, val] entries
MapHas(m, k) == \E e \in m : e.key = k
MapGet(m, k) == (CHOOSE e \in m : e.key = k).val
MapSet(m, k, v) == { e \in m : e.key # k } \cup { [key |-> k, val |-> v] }

\* null
Null == <<>>

\* a plausible slip: downloadAsset without the test "Skip if already downloaded"
DownloadSync_NoMemo(url, pageUrl, memo) ==
  LET inline == StartsWith(url, <<"d", "a", "t", "a", ":">>) \/ StartsWith(url, <<"b", "l", "o", "b", ":">>)
      from(u) ==
        LET stored == ~inline /\ u.valid /\ MapHas(memo, u.href)
            call == [kind |-> "null", abs |-> <<>>, pathname |-> <<>>, path |-> Null,
                     stored |-> stored,
                     registered |-> IF stored THEN MapGet(memo, u.href) ELSE Null]
        IN IF inline THEN call
           ELSE IF ~u.valid THEN call
           ELSE IF ~Eligible(u) THEN [call EXCEPT !.abs = u.href]
           ELSE [call EXCEPT !.kind = "fetch", !.abs = u.href, !.pathname = u.pathname]
  IN from(ResolveUrl(url, pageUrl))

\* downloadAsset up to its first await, against the store `memo`:
\*   "null"  the call returns null at once (data:/blob:, unresolvable, ineligible)
\*   "hit"   the call returns the registered LocalPath at once
\*   "fetch" the call issues fetch(abs) and waits
\* stored and registered record what the store held for the URL at the call.
DownloadSync(url, pageUrl, memo) ==
  LET inline == StartsWith(url, <<"d", "a", "t", "a", ":">>) \/ StartsWith(url, <<"b", "l", "o", "b", ":">>)
      from(u) ==
        LET stored == ~inline /\ u.valid /\ MapHas(memo, u.href)
            call == [kind |-> "null", abs |-> <<>>, pathname |-> <<>>, path |-> Null,
                     stored |-> stored,
                     registered |-> IF stored THEN MapGet(memo, u.href) ELSE Null]
        IN IF inline THEN call
           ELSE IF ~u.valid THEN call
           ELSE IF MapHas(memo, u.href)
                THEN [call EXCEPT !.kind = "hit", !.abs = u.href, !.pathname = u.pathname,
                                  !.path = MapGet(memo, u.href)]
           ELSE IF ~Eligible(u) THEN [call EXCEPT !.abs = u.href]
           ELSE [call EXCEPT !.kind = "fetch", !.abs = u.href, !.pathname = u.pathname]
  IN from(ResolveUrl(url, pageUrl))

----------------------------------------------------------------------------
\* AssetStore and rewriteHtml's download phase, as the event loop runs them

\* the site's stylesheet and an asset whose URL path has no extension
A_CSS == BASE \o <<"/", "s", ".", "c", "s", "s">>
A_F == BASE \o <<"/", "f">>

\* the page that is mirrored
PAGE_A == BASE \o <<"/", "a">>

\* references a page's HTML can hold
RawRefs ==
  { A_CSS, <<"/", "s", ".", "c", "s", "s">>, A_F, <<"/", "f">>, HTTPS \o ELSEWHERE \o <<"/", "t">>, <<"d", "a", "t", "a", ":", ",">> }

\* assetUrls: a Set, so each reference once, in insertion order
RefLists ==
  { l \in UNION { [1..k -> RawRefs] : k \in 0..MaxRefs } :
      \A i, j \in DOMAIN l : l[i] = l[j] => i = j }

\* pageAssets: the requests the route handler saw the browser make
ObservedLists == { <<>>, <<A_CSS>>, <<A_F>>, <<A_CSS, A_F>> }

\* the url() references of the text the server sends for a URL
BodyRefs(abs) == IF abs = A_CSS THEN << <<"f">> >> ELSE <<>>

\* extractAssetsFromCss: the references, without data: URIs and fragments
ExtractRefs(refs) ==
  SelectSeq(refs, LAMBDA r : ~StartsWith(r, <<"d", "a", "t", "a", ":">>) /\ ~StartsWith(r, <<"#">>))

\* url.endsWith('.css') || url.includes('.css?') || localPath.endsWith('.css')
IsCssRef(url, localPath) ==
  \/ EndsWith(url, <<".", "c", "s", "s">>)
  \/ Includes(url, <<".", "c", "s", "s", "?">>)
  \/ EndsWith(localPath, <<".", "c", "s", "s">>)

Bump(m, k) == MapSet(m, k, IF MapHas(m, k) THEN MapGet(m, k) + 1 ELSE 1)

IdleTask == [pc |-> "done", lvl |-> "top", ref |-> <<>>, base |-> <<>>, abs |-> <<>>,
             pathname |-> <<>>, rest |-> <<>>, stored |-> FALSE, registered |-> Null]

\* The code between two waits for the network runs without interruption: the
\* operators below carry task k from the return of one downloadAsset call to its
\* next fetch, or to its end.  st holds the store and rewriteHtml's locals.

\* the record of a call that returned without fetching
CallEntry(s) ==
  [abs |-> s.abs, stored |-> s.stored, registered |-> s.registered,
   fetched |-> FALSE, wrote |-> FALSE, path |-> s.path]

\* the call s issues its fetch and task k waits for it
Wait(st, k, lvl, ref, base, rest, s) ==
  [st EXCEPT
     !.fetches = Bump(st.fetches, s.abs),
     !.tasks[k] = [pc |-> "wait", lvl |-> lvl, ref |-> ref, base |-> base,
                   abs |-> s.abs, pathname |-> s.pathname, rest |-> rest,
                   stored |-> s.stored, registered |-> s.registered]]

\* for (const cssAssetUrl of cssAssets) await downloadAsset(cssAssetUrl, url):
\* the calls that return at once (null, or a registered path) follow each other
\* until one has to fetch
Walk(st, k, rest, base) ==
  LET along(call) ==
        LET fetching == { j \in DOMAIN rest : call[j].kind = "fetch" }
            stop == IF fetching = {} THEN Len(rest) + 1
                    ELSE CHOOSE j \in fetching : \A i \in fetching : j <= i
            hits == { j \in 1..(stop - 1) : call[j].kind = "hit" }
            st1 == [st EXCEPT
                      !.amap = { e \in st.amap : \A j \in hits : e.key # rest[j] }
                                 \cup { [key |-> rest[j], val |-> call[j].path] : j \in hits },
                      !.calls = st.calls \cup { CallEntry(call[j]) : j \in hits }]
        IN IF stop > Len(rest) THEN [st1 EXCEPT !.tasks[k] = IdleTask]
           ELSE Wait(st1, k, "sub", rest[stop], base,
                     SubSeq(rest, stop + 1, Len(rest)), call[stop])
  IN along([j \in DOMAIN rest |-> DownloadSync(rest[j], base, st.memo)])

\* downloadAsset has returned `path` to task k: rewriteHtml's callback for a
\* reference of the page, or the loop over a stylesheet's references
Returned(st, k, lvl, ref, base, rest, path) ==
  LET mapped == IF path = Null THEN st
                ELSE [st EXCEPT !.amap = MapSet(st.amap, ref, path)]
      isCss == lvl = "top" /\ path # Null /\ IsCssRef(ref, path) /\ MapHas(st.files, path)
      content == MapGet(st.files, path)
  IN IF lvl = "obs" \/ (lvl = "top" /\ ~isCss)
     THEN [(IF lvl = "obs" THEN st ELSE mapped) EXCEPT !.tasks[k] = IdleTask]
     ELSE Walk(IF isCss
               THEN [mapped EXCEPT !.css = MapSet(st.css, path,
                                                 [content |-> content, url |-> ref])]
               ELSE mapped,
               k,
               IF isCss THEN ExtractRefs(content) ELSE rest,
               IF isCss THEN ref ELSE base)

\* downloadAsset(ref, PAGE_A) is called for task k of a fan-out
Issue(st, k, lvl, ref) ==
  LET start(s) ==
        IF s.kind = "fetch" THEN Wait(st, k, lvl, ref, PAGE_A, <<>>, s)
        ELSE Returned(IF s.kind = "hit"
                      THEN [st EXCEPT !.calls = st.calls \cup {CallEntry(s)}]
                      ELSE st,
                      k, lvl, ref, PAGE_A, <<>>, s.path)
  IN start(DownloadSync(ref, PAGE_A, st.memo))

\* refs.map(url => downloadAsset(url, pageUrl)): every call runs up to its fetch
RECURSIVE IssueAll(_, _, _, _)
IssueAll(st, lvl, refs, k) ==
  IF k > Len(refs) THEN st
  ELSE IssueAll(Issue(st, k, lvl, refs[k]), lvl, refs, k + 1)

\* the store and the locals, gathered and spread
Gather ==
  [memo |-> downloadedAssets, files |-> assetFiles, fetches |-> fetches,
   calls |-> callLog, amap |-> assetMap, css |-> cssFiles, tasks |-> dlTasks]

Spread(st) ==
  /\ downloadedAssets' = st.memo
  /\ assetFiles' = st.files
  /\ fetches' = st.fetches
  /\ callLog' = st.calls
  /\ assetMap' = st.amap
  /\ cssFiles' = st.css
  /\ dlTasks' = st.tasks

AssetInit ==
  /\ downloadedAssets = {}
  /\ assetFiles = {}
  /\ fetches = {}
  /\ callLog = {}
  /\ pagesDone = 0
  /\ pagePc = "idle"
  /\ pageRefs = <<>>
  /\ dlTasks = <<>>
  /\ assetMap = {}
  /\ cssFiles = {}

\* a page task reaches "Download all captured assets": downloadAsset is called
\* for every request the browser was seen to make
StartPage ==
  /\ pagePc = "idle"
  /\ pagesDone < MaxPages
  /\ \E refs \in RefLists, observed \in ObservedLists :
       /\ pageRefs' = refs
       /\ Spread(IssueAll([Gather EXCEPT !.tasks = [i \in DOMAIN observed |-> IdleTask],
                                        !.amap = {}, !.css = {}],
                          "obs", observed, 1))
  /\ pagePc' = "observed"
  /\ UNCHANGED pagesDone
  /\ UNCHANGED notAsset

\* await Promise.all(assetPromises) is over: rewriteHtml collects assetUrls and
\* calls downloadAsset for each of them
StartDownloads ==
  /\ pagePc = "observed"
  /\ \A k \in DOMAIN dlTasks : dlTasks[k].pc = "done"
  /\ Spread(IssueAll([Gather EXCEPT !.tasks = [i \in DOMAIN pageRefs |-> IdleTask]],
                     "top", pageRefs, 1))
  /\ pagePc' = "rewriting"
  /\ UNCHANGED <<pagesDone, pageRefs>>
  /\ UNCHANGED notAsset

\* the fetch of task k settles: it throws, answers with a failure status, or
\* answers 2xx with a content type; downloadAsset stores the file and registers
\* it, and the task runs on
FetchDone(k) ==
  /\ pagePc \in {"observed", "rewriting"}
  /\ dlTasks[k].pc = "wait"
  /\ \E outcome \in {"throws", "not ok", "ok"}, ct \in ContentTypes :
       LET t == dlTasks[k]
           path == IF outcome = "ok" THEN AssetLocalPath(t.pathname, ct) ELSE Null
           entry == [abs |-> t.abs, stored |-> t.stored, registered |-> t.registered,
                     fetched |-> TRUE, wrote |-> outcome = "ok", path |-> path]
           logged == [Gather EXCEPT !.calls = callLog \cup {entry}]
           st == IF outcome = "ok"
                 THEN [logged EXCEPT
                         !.files = MapSet(assetFiles, path, BodyRefs(t.abs)),
                         !.memo = MapSet(downloadedAssets, t.abs, path)]
                 ELSE logged
       IN Spread(Returned(st, k, t.lvl, t.ref, t.base, t.rest, path))
  /\ UNCHANGED <<pagesDone, pagePc, pageRefs>>
  /\ UNCHANGED notAsset

\* await Promise.all(downloadPromises) is over: the rest of rewriteHtml and of
\* the page task runs, and the next page task starts
FinishPage ==
  /\ pagePc = "rewriting"
  /\ \A k \in DOMAIN dlTasks : dlTasks[k].pc = "done"
  /\ pagePc' = "idle"
  /\ pagesDone' = pagesDone + 1
  /\ dlTasks' = <<>>
  /\ UNCHANGED <<storeVars, pageRefs, assetMap, cssFiles>>
  /\ UNCHANGED notAsset

AssetNext ==
  \/ StartPage
  \/ StartDownloads
  \/ \E k \in DOMAIN dlTasks : FetchDone(k)
  \/ FinishPage

AssetIdle ==
  /\ downloadedAssets = {}
  /\ assetFiles = {}
  /\ fetches = {}
  /\ callLog = {}
  /\ pagesDone = 0
  /\ pagePc = "off"
  /\ pageRefs = <<>>
  /\ dlTasks = <<>>
  /\ assetMap = {}
  /\ cssFiles = {}

----------------------------------------------------------------------------
\* MirrorReport: the merge of a run's results into offline/_report.json

\* fs.existsSync(reportPath) is false
NoFile == [exists |-> FALSE, total |-> 0, failed |-> <<>>, assetsDownloaded |-> 0]

\* page URLs a run can be given (argv or the sitemap)
PageUrls == {"u1", "u2", "u3"}

\* e.message of a failed page
Reasons == {"timeout", "blocked"}

\* argv.slice(2).filter(...) keeps repeated arguments
UrlLists == UNION { [1..k -> PageUrls] : k \in 1..MaxListLen }

\* results.filter(r => !r.ok)
FailedOf(results) == SelectSeq(results, LAMBDA r : ~r.ok)

\* new Set(results.filter(r => r.ok).map(r => r.url))
SuccessUrlsOf(results) == { results[i].url : i \in { j \in DOMAIN results : results[j].ok } }

\* new Set(existing.failed.map(f => f.url))
UrlsOf(failed) == { failed[i].url : i \in DOMAIN failed }

Max(a, b) == IF a >= b THEN a ELSE b

\* the report main() writes, given the file it found, the run's URL count, its
\* results and downloadedAssets.size
MergeReport(existing, nUrls, results, nAssets) ==
  LET failed == FailedOf(results)
      fresh  == [exists |-> TRUE, total |-> nUrls, failed |-> failed,
                 assetsDownloaded |-> nAssets]
  IN IF ~existing.exists THEN fresh
     ELSE
       LET newFailed == SelectSeq(failed, LAMBDA f : f.url \notin UrlsOf(existing.failed))
           successUrls == SuccessUrlsOf(results)
       IN IF Len(newFailed) > 0
          THEN [exists |-> TRUE, total |-> Max(existing.total, nUrls),
                failed |-> existing.failed \o newFailed,
                assetsDownloaded |-> nAssets]
          ELSE IF successUrls # {}
               THEN [exists |-> TRUE, total |-> existing.total,
                     failed |-> SelectSeq(existing.failed, LAMBDA f : f.url \notin successUrls),
                     assetsDownloaded |-> nAssets]
               ELSE fresh

ReportInit ==
  /\ reportFile = NoFile
  /\ runNo = 0
  /\ lastResults = <<>>
  /\ prevReport = NoFile

\* one run of main(): scrapeUrls returns one result per URL, the report is merged
\* and written
MainRun ==
  /\ runNo < MaxRuns
  /\ \E urls \in UrlLists, reason \in Reasons, nAssets \in 0..1 :
       \E oks \in [DOMAIN urls -> BOOLEAN] :
         LET results == [i \in DOMAIN urls |->
                           [url |-> urls[i], ok |-> oks[i],
                            reason |-> IF oks[i] THEN "" ELSE reason]]
         IN /\ lastResults' = results
            /\ prevReport' = reportFile
            /\ reportFile' = MergeReport(reportFile, Len(urls), results, nAssets)
  /\ runNo' = runNo + 1
  /\ UNCHANGED notReport

ReportNext == MainRun

----------------------------------------------------------------------------
\* MirrorDriver: scrapeUrls

\* const CONCURRENCY = 1
CONCURRENCY == 1

\* URL strings a batch is given: two pages of the site, the site without "www.",
\* a page of another site, and a string new URL() rejects ("http://" passes the
\* argv filter arg.startsWith('http'))
BatchUrlStrings ==
  { BASE \o <<"/", "a">>,
    BASE \o <<"/", "b", "/">>,
    HTTPS \o SITE \o <<"/", "a">>,
    HTTPS \o ELSEWHERE \o <<"/", "a">>,
    HTTP }

BatchLists == UNION { [1..k -> BatchUrlStrings] : k \in 1..MaxBatchLen }

NoResult == [set |-> FALSE, url |-> <<>>, ok |-> FALSE, reason |-> ""]
Result(u, ok, reason) == [set |-> TRUE, url |-> u, ok |-> ok, reason |-> reason]

Tasks == DOMAIN batchUrls

\* p-limit: tasks whose function has started and whose promise is not settled
Active == { i \in Tasks : taskPc[i] \notin {"queued", "fulfilled", "rejected"} }

BatchInit ==
  /\ batchUrls \in BatchLists
  /\ batchPc = "running"
  /\ taskPc = [i \in DOMAIN batchUrls |-> "queued"]
  /\ taskResult = [i \in DOMAIN batchUrls |-> NoResult]
  /\ openPages = {}
  /\ indexWritten = {}

\* the task's promise rejects: Promise.all rejects and scrapeUrls throws into
\* main's async function, so the run returns no results; the limiter frees the
\* task's slot as for a fulfilled promise, and the queued tasks still start
Reject(i) ==
  /\ taskPc' = [taskPc EXCEPT ![i] = "rejected"]
  /\ batchPc' = "rejected"

\* the task's promise is fulfilled with r
Fulfil(i, r) ==
  /\ taskPc' = [taskPc EXCEPT ![i] = "fulfilled"]
  /\ taskResult' = [taskResult EXCEPT ![i] = r]
  /\ batchPc' = batchPc

\* limit(async () => { const u = new URL(fullUrl); origin test; newPage() ...
\* p-limit starts the queued tasks in order while fewer than CONCURRENCY run
StartTask(i) ==
  /\ batchPc \in {"running", "rejected"}
  /\ taskPc[i] = "queued"
  /\ \A j \in Tasks : j < i => taskPc[j] # "queued"
  /\ Cardinality(Active) < CONCURRENCY
  /\ LET u == ParseUrl(batchUrls[i])
     IN IF ~u.valid
        THEN Reject(i) /\ UNCHANGED taskResult
        ELSE IF normalizeOrigin(u.origin) # normalizeOrigin(BASE)
             THEN Fulfil(i, Result(batchUrls[i], FALSE, "Different origin"))
             ELSE /\ taskPc' = [taskPc EXCEPT ![i] = "opening"]
                  /\ UNCHANGED <<taskResult, batchPc>>
  /\ UNCHANGED <<batchUrls, openPages, indexWritten>>
  /\ UNCHANGED notBatch

\* const page = await context.newPage()      (outside the try)
OpenPage(i) ==
  /\ batchPc \in {"running", "rejected"}
  /\ taskPc[i] = "opening"
  /\ \E throws \in BOOLEAN :
       IF throws
       THEN Reject(i) /\ UNCHANGED <<taskResult, openPages>>
       ELSE /\ taskPc' = [taskPc EXCEPT ![i] = "routing"]
            /\ openPages' = openPages \cup {i}
            /\ UNCHANGED <<taskResult, batchPc>>
  /\ UNCHANGED <<batchUrls, indexWritten>>
  /\ UNCHANGED notBatch

\* await page.route('**/*', ...)              (outside the try)
InstallRoute(i) ==
  /\ batchPc \in {"running", "rejected"}
  /\ taskPc[i] = "routing"
  /\ \E throws \in BOOLEAN :
       IF throws
       THEN Reject(i) /\ UNCHANGED taskResult
       ELSE /\ taskPc' = [taskPc EXCEPT ![i] = "rendering"]
            /\ UNCHANGED <<taskResult, batchPc>>
  /\ UNCHANGED <<batchUrls, openPages, indexWritten>>
  /\ UNCHANGED notBatch

\* a step inside try { ... }: it goes on to `next`, or throws and the catch
\* block keeps { ok: false, reason } for the finally block to return
TryStep(i, here, next) ==
  /\ batchPc \in {"running", "rejected"}
  /\ taskPc[i] = here
  /\ \E throws \in BOOLEAN, reason \in Reasons :
       IF throws
       THEN /\ taskPc' = [taskPc EXCEPT ![i] = "closing"]
            /\ taskResult' = [taskResult EXCEPT ![i] = Result(batchUrls[i], FALSE, reason)]
            /\ UNCHANGED indexWritten
       ELSE /\ taskPc' = [taskPc EXCEPT ![i] = next]
            /\ indexWritten' = IF here = "writing" THEN indexWritten \cup {i}
                                ELSE indexWritten
            /\ IF next = "closing"
               THEN taskResult' = [taskResult EXCEPT ![i] = Result(batchUrls[i], TRUE, "")]
               ELSE UNCHANGED taskResult
  /\ UNCHANGED <<batchUrls, batchPc, openPages>>
  /\ UNCHANGED notBatch

\* page.goto, the waits and the content checks
Render(i) == TryStep(i, "rendering", "transforming")

\* ensureDir, the asset downloads, rewriteHtml and the three rewrites after it
Transform(i) == TryStep(i, "transforming", "writing")

\* fs.writeFileSync(path.join(dir, "index.html"), html)
WriteIndex(i) == TryStep(i, "writing", "snapshot")

\* await page.screenshot(...); return { url, ok: true }
Screenshot(i) == TryStep(i, "snapshot", "closing")

\* finally { await page.close() }: a throw here replaces the kept result
ClosePage(i) ==
  /\ batchPc \in {"running", "rejected"}
  /\ taskPc[i] = "closing"
  /\ \E throws \in BOOLEAN :
       IF throws
       THEN Reject(i) /\ UNCHANGED <<taskResult, openPages>>
       ELSE /\ Fulfil(i, [taskResult[i] EXCEPT !.set = TRUE])
            /\ openPages' = openPages \ {i}
  /\ UNCHANGED <<batchUrls, indexWritten>>
  /\ UNCHANGED notBatch

\* Promise.all resolves once every task is fulfilled; scrapeUrls returns results
ReturnResults ==
  /\ batchPc = "running"
  /\ \A i \in Tasks : taskPc[i] = "fulfilled"
  /\ batchPc' = "returned"
  /\ UNCHANGED <<batchUrls, taskPc, taskResult, openPages, indexWritten>>
  /\ UNCHANGED notBatch

BatchNext ==
  \/ \E i \in Tasks : StartTask(i)
  \/ \E i \in Tasks : OpenPage(i)
  \/ \E i \in Tasks : InstallRoute(i)
  \/ \E i \in Tasks : Render(i)
  \/ \E i \in Tasks : Transform(i)
  \/ \E i \in Tasks : WriteIndex(i)
  \/ \E i \in Tasks : Screenshot(i)
  \/ \E i \in Tasks : ClosePage(i)
  \/ ReturnResults

BatchIdle ==
  /\ batchUrls = <<>>
  /\ batchPc = "idle"
  /\ taskPc = <<>>
  /\ taskResult = <<>>
  /\ openPages = {}
  /\ indexWritten = {}

----------------------------------------------------------------------------
\* LinkResolver (rewriteInternalLinks of scrape.mjs) and LinkRepairPass
\* (fix-links.mjs).  A file path is the sequence of its segments below the
\* working directory; a document is the text of one href attribute.

QUOTES == {"\"", "'"}
HREF_EQ == <<"h", "r", "e", "f", "=">>
INDEX_HTML == <<"i", "n", "d", "e", "x", ".", "h", "t", "m", "l">>

\* const OUT = path.resolve("offline")
OUT == << <<"o", "f", "f", "l", "i", "n", "e">> >>

\* path.normalize over segments: empty and "." segments go, ".." takes one back
RECURSIVE NormWalk(_, _)
NormWalk(done, segs) ==
  IF segs = <<>> THEN done
  ELSE IF Head(segs) = <<>> \/ Head(segs) = <<".">> THEN NormWalk(done, Tail(segs))
  ELSE IF Head(segs) = <<".", ".">>
  THEN NormWalk(IF done = <<>> THEN done ELSE DropLast(done), Tail(segs))
  ELSE NormWalk(Append(done, Head(segs)), Tail(segs))

\* path.join(OUT, localPath)
PageDirOf(localPath) == NormWalk(<<>>, OUT \o SplitSlash(localPath))

\* path.join(OUT, localPath, 'index.html')
TargetFileOf(localPath) == NormWalk(<<>>, OUT \o SplitSlash(localPath) \o <<INDEX_HTML>>)

\* path.relative(from, to), with "/" as the separator
PathRelative(from, to) ==
  LET same == { k \in 0..Len(from) : k <= Len(to) /\ SubSeq(from, 1, k) = SubSeq(to, 1, k) }
      up(k) == JoinSlash([i \in 1..(Len(from) - k) |-> <<".", ".">>]
                           \o SubSeq(to, k + 1, Len(to)))
  IN up(CHOOSE k \in same : \A j \in same : j <= k)

\* fs.existsSync(file) on a mirror that holds the documents `disk`: the file is an
\* index.html of the mirror or one of its directories
Exists(disk, file) ==
  \E dir \in DOMAIN disk :
    \/ file = Append(dir, INDEX_HTML)
    \/ Len(file) <= Len(dir) /\ SubSeq(dir, 1, Len(file)) = file

\* the hrefs both resolvers leave alone
SkippedHref(href) ==
  \/ StartsWith(href, <<"#">>)
  \/ StartsWith(href, <<"m", "a", "i", "l", "t", "o", ":">>)
  \/ StartsWith(href, <<"t", "e", "l", ":">>)
  \/ StartsWith(href, <<"j", "a", "v", "a", "s", "c", "r", "i", "p", "t", ":">>)
  \/ StartsWith(href, <<"d", "a", "t", "a", ":">>)
  \/ href = <<>>

\* a plausible slip: the resolver without the test of the origin
SameSitePath_AnyOrigin(u) ==
  IF u.valid THEN u.pathname ELSE Null

\* targetPath of an href the resolver takes for a URL: its pathname when the
\* origin is the site's, Null otherwise
SameSitePath(u) ==
  IF u.valid /\ normalizeOrigin(u.origin) = normalizeOrigin(BASE) THEN u.pathname ELSE Null

\* targetPath as scrape.mjs finds it, Null where the callback returns the match
TargetPath(href, pageUrl) ==
  IF SkippedHref(href) THEN Null
  ELSE IF StartsWith(href, HTTP) \/ StartsWith(href, HTTPS) THEN SameSitePath(ParseUrl(href))
  ELSE IF StartsWith(href, <<"/">>) THEN href
  ELSE SameSitePath(ResolveUrl(href, pageUrl))

\* targetPath as fix-links.mjs finds it: page-relative hrefs are skipped
TargetPath_fix(href) ==
  IF SkippedHref(href) THEN Null
  ELSE IF StartsWith(href, HTTP) \/ StartsWith(href, HTTPS) THEN SameSitePath(ParseUrl(href))
  ELSE IF StartsWith(href, <<"/">>) THEN href
  ELSE Null

\* "Convert to local file path": the callback's result for one match
RewriteMatch(match, href, targetPath, pageDir, disk) ==
  LET to(targetFile) ==
        IF Exists(disk, targetFile)
        THEN ReplaceFirst(match, href, PathRelative(pageDir, targetFile))
        ELSE match
  IN IF targetPath = Null THEN match ELSE to(TargetFileOf(safeFileName(targetPath)))

\* does /href=["']([^"']+)["']/ match at position i of html
MatchAt(html, i) ==
  /\ i + 7 <= Len(html)
  /\ HasAt(html, i, HREF_EQ)
  /\ html[i + 5] \in QUOTES
  /\ html[i + 6] \notin QUOTES
  /\ \E j \in (i + 7)..Len(html) : html[j] \in QUOTES

\* the first match of the pattern in html: start, end, and the captured href
FirstMatch(html) ==
  LET starts == { i \in 1..Len(html) : MatchAt(html, i) }
      from(i) ==
        LET stop == i + 5 + FirstOf(SubSeq(html, i + 6, Len(html)), QUOTES)
        IN [found |-> TRUE, start |-> i, stop |-> stop,
            match |-> SubSeq(html, i, stop), href |-> SubSeq(html, i + 6, stop - 1)]
  IN IF starts = {}
     THEN [found |-> FALSE, start |-> 0, stop |-> 0, match |-> <<>>, href |-> <<>>]
     ELSE from(CHOOSE i \in starts : \A j \in starts : i <= j)

\* html.replace(/href=.../gi, callback) of scrape.mjs
RECURSIVE rewriteInternalLinks(_, _, _, _)
rewriteInternalLinks(html, pageUrl, pageDir, disk) ==
  LET with(m) ==
        IF ~m.found THEN html
        ELSE SubSeq(html, 1, m.start - 1)
               \o RewriteMatch(m.match, m.href, TargetPath(m.href, pageUrl), pageDir, disk)
               \o rewriteInternalLinks(SubSeq(html, m.stop + 1, Len(html)), pageUrl, pageDir, disk)
  IN with(FirstMatch(html))

\* html.replace(/href=.../gi, callback) of fix-links.mjs
RECURSIVE rewriteInternalLinks_fix(_, _, _)
rewriteInternalLinks_fix(html, pageDir, disk) ==
  LET with(m) ==
        IF ~m.found THEN html
        ELSE SubSeq(html, 1, m.start - 1)
               \o RewriteMatch(m.match, m.href, TargetPath_fix(m.href), pageDir, disk)
               \o rewriteInternalLinks_fix(SubSeq(html, m.stop + 1, Len(html)), pageDir, disk)
  IN with(FirstMatch(html))

\* pages of the site, by URL path
SitePaths ==
  { <<"/", "a", "/">>, <<"/", "a", "/", "b", "/">>, <<"/", "a", "/", "$", "&", "b">>, <<"/", "a", "/", "$", "&", "b", "b", "/", "i", "n", "d", "e", "x", ".", "h", "t", "m", "l">> }

\* hrefs a rendered page holds: absolute, root-relative and page-relative links
\* to pages of the site, and an anchor
SiteHrefs ==
  { BASE \o <<"/", "a", "/", "b", "/">>, <<"/", "a", "/", "b", "/">>, <<"b", "/">>, <<"/", "a", "/", "$", "&", "b">>, <<"/", "a", "/">>, <<"#", "t">> }

\* the rendered document that holds href
DocWith(href) == HREF_EQ \o <<"\"">> \o href \o <<"\"">>

NoDocs == [dir \in {} |-> <<>>]

LinkInit ==
  /\ mirrorDocs = NoDocs
  /\ rendered = NoDocs
  /\ mirrorCount = 0
  /\ repairsSince = 0
  /\ lastWrites = {}

\* a page task of the main pass: the rendered document is rewritten against the
\* mirror as it is, then written as the page's index.html
MirrorPage ==
  /\ mirrorCount < MaxMirrors
  /\ \E p \in SitePaths, href \in SiteHrefs :
       LET fullUrl == BASE \o p
           dir == PageDirOf(safeFileName(ParseUrl(fullUrl).pathname))
           html == rewriteInternalLinks(DocWith(href), fullUrl, dir, mirrorDocs)
       IN /\ ~Exists(mirrorDocs, Append(dir, INDEX_HTML)) \/ dir \in DOMAIN mirrorDocs
          /\ mirrorDocs' = [d \in DOMAIN mirrorDocs \cup {dir} |->
                              IF d = dir THEN html ELSE mirrorDocs[d]]
          /\ rendered' = [d \in DOMAIN rendered \cup {dir} |->
                            IF d = dir THEN [url |-> fullUrl, href |-> href] ELSE rendered[d]]
  /\ mirrorCount' = mirrorCount + 1
  /\ repairsSince' = 0
  /\ lastWrites' = {}
  /\ UNCHANGED notLink

\* processDirectory(OUT): every index.html is read, rewritten, and written when
\* the text changed
RepairPass ==
  /\ repairsSince < MaxRepairs
  /\ mirrorCount > 0
  /\ mirrorDocs' = [d \in DOMAIN mirrorDocs |->
                      rewriteInternalLinks_fix(mirrorDocs[d], d, mirrorDocs)]
  /\ lastWrites' = { d \in DOMAIN mirrorDocs : mirrorDocs'[d] # mirrorDocs[d] }
  /\ repairsSince' = repairsSince + 1
  /\ UNCHANGED <<rendered, mirrorCount>>
  /\ UNCHANGED notLink

LinkNext ==
  \/ MirrorPage
  \/ RepairPass

LinkIdle ==
  /\ mirrorDocs = NoDocs
  /\ rendered = NoDocs
  /\ mirrorCount = 0
  /\ repairsSince = 0
  /\ lastWrites = {}

----------------------------------------------------------------------------
\* PageTransformer: the attribute rewriting at the end of rewriteHtml

\* s.split(c) for a one-character separator
RECURSIVE SplitOn(_, _)
SplitOn(s, c) ==
  LET at(i) == IF i = 0 THEN <<s>>
               ELSE <<SubSeq(s, 1, i - 1)>> \o SplitOn(SubSeq(s, i + 1, Len(s)), c)
  IN at(IndexOf(s, <<c>>))

\* segs.join(sep)
RECURSIVE JoinWith(_, _)
JoinWith(segs, sep) ==
  IF segs = <<>> THEN <<>>
  ELSE IF Len(segs) = 1 THEN segs[1]
  ELSE segs[1] \o sep \o JoinWith(Tail(segs), sep)

\* s.trim(), the blank being the only white space of the model
RECURSIVE Trim(_)
Trim(s) ==
  IF s # <<>> /\ Head(s) = " " THEN Trim(Tail(s))
  ELSE IF s # <<>> /\ s[Len(s)] = " " THEN Trim(DropLast(s))
  ELSE s

\* s.split(/\s+/) of a trimmed string
RECURSIVE SplitBlanks(_)
SplitBlanks(s) ==
  LET at(i) == IF i = 0 THEN <<s>>
               ELSE <<SubSeq(s, 1, i - 1)>> \o SplitBlanks(Trim(SubSeq(s, i + 1, Len(s))))
  IN at(IndexOf(s, <<" ">>))

\* path.relative(pageDir, path.join(OUT, localPath))
RelativeAsset(pageDir, localPath) ==
  PathRelative(pageDir, NormWalk(<<>>, OUT \o SplitSlash(localPath)))

\* the first match of /<tag[^>]+attr=["']([^"']+)["'][^>]*>/ in html, for the
\* opening `open` ("<link") and the attribute `attr` ("href=")
TagMatch(html, open, attr) ==
  LET closes(k) == { e \in (k + 1)..Len(html) : html[e] = ">" }
      quoteAfter(v) == v - 1 + FirstOf(SubSeq(html, v, Len(html)), QUOTES)
      attrAt(i, j) ==
        /\ j + Len(attr) + 1 <= Len(html)
        /\ HasAt(html, j, attr)
        /\ \A g \in (i + Len(open))..(j - 1) : html[g] # ">"
        /\ html[j + Len(attr)] \in QUOTES
        /\ html[j + Len(attr) + 1] \notin QUOTES
        /\ quoteAfter(j + Len(attr) + 1) <= Len(html)
        /\ closes(quoteAfter(j + Len(attr) + 1)) # {}
      attrs(i) == { j \in (i + Len(open) + 1)..Len(html) : attrAt(i, j) }
      starts == { i \in 1..Len(html) :
                    HasAt(html, i, open) /\ attrs(i) # {} }
      from(i, j) ==
        LET v == j + Len(attr) + 1
            q == quoteAfter(v)
            stop == CHOOSE e \in closes(q) : \A f \in closes(q) : e <= f
        IN [found |-> TRUE, start |-> i, stop |-> stop,
            match |-> SubSeq(html, i, stop), value |-> SubSeq(html, v, q - 1)]
      first(i) == from(i, CHOOSE j \in attrs(i) : \A g \in attrs(i) : g <= j)
  IN IF starts = {}
     THEN [found |-> FALSE, start |-> 0, stop |-> 0, match |-> <<>>, value |-> <<>>]
     ELSE first(CHOOSE i \in starts : \A g \in starts : i <= g)

\* the callback of the link, script and img rewrites; `skipped` are the
\* prefixes the callback returns the match for
RewriteTag(match, value, skipped, amap, pageDir) ==
  IF \E pre \in skipped : StartsWith(value, pre) THEN match
  ELSE IF MapHas(amap, value) /\ MapGet(amap, value) # <<>>
  THEN ReplaceFirst(match, value, RelativeAsset(pageDir, MapGet(amap, value)))
  ELSE match

\* html.replace(/<tag[^>]+attr=.../gi, callback)
RECURSIVE ReplaceTags(_, _, _, _, _, _)
ReplaceTags(html, open, attr, skipped, amap, pageDir) ==
  LET with(m) ==
        IF ~m.found THEN html
        ELSE SubSeq(html, 1, m.start - 1)
               \o RewriteTag(m.match, m.value, skipped, amap, pageDir)
               \o ReplaceTags(SubSeq(html, m.stop + 1, Len(html)),
                              open, attr, skipped, amap, pageDir)
  IN with(TagMatch(html, open, attr))

NotAssetRefs == { <<"#">>, <<"m", "a", "i", "l", "t", "o", ":">>, <<"t", "e", "l", ":">> }
InlineRefs == { <<"d", "a", "t", "a", ":">>, <<"b", "l", "o", "b", ":">> }
SRCSET_EQ == <<"s", "r", "c", "s", "e", "t", "=">>

\* one part of a srcset as the callback maps it
SrcsetPart(part, amap, pageDir) ==
  LET tokens(words) ==
        IF \E pre \in InlineRefs : StartsWith(words[1], pre) THEN Trim(part)
        ELSE IF MapHas(amap, words[1]) /\ MapGet(amap, words[1]) # <<>>
        THEN JoinWith(<<RelativeAsset(pageDir, MapGet(amap, words[1]))>> \o Tail(words),
                      <<" ">>)
        ELSE Trim(part)
  IN tokens(SplitBlanks(Trim(part)))

\* the first match of /srcset=["']([^"']+)["']/ in html
SrcsetMatch(html) ==
  LET at(i) ==
        /\ i + Len(SRCSET_EQ) + 2 <= Len(html)
        /\ HasAt(html, i, SRCSET_EQ)
        /\ html[i + Len(SRCSET_EQ)] \in QUOTES
        /\ html[i + Len(SRCSET_EQ) + 1] \notin QUOTES
        /\ \E j \in (i + Len(SRCSET_EQ) + 2)..Len(html) : html[j] \in QUOTES
      starts == { i \in 1..Len(html) : at(i) }
      from(i) ==
        LET v == i + Len(SRCSET_EQ) + 1
            stop == v - 1 + FirstOf(SubSeq(html, v, Len(html)), QUOTES)
        IN [found |-> TRUE, start |-> i, stop |-> stop, value |-> SubSeq(html, v, stop - 1)]
  IN IF starts = {}
     THEN [found |-> FALSE, start |-> 0, stop |-> 0, value |-> <<>>]
     ELSE from(CHOOSE i \in starts : \A g \in starts : i <= g)

\* html.replace(/srcset=.../gi, callback): the attribute is written anew
RECURSIVE ReplaceSrcsets(_, _, _)
ReplaceSrcsets(html, amap, pageDir) ==
  LET parts(value) == SplitOn(value, ",")
      anew(value) ==
        SRCSET_EQ \o <<"\"">>
          \o JoinWith([k \in DOMAIN parts(value) |->
                         SrcsetPart(parts(value)[k], amap, pageDir)], <<",", " ">>)
          \o <<"\"">>
      with(m) ==
        IF ~m.found THEN html
        ELSE SubSeq(html, 1, m.start - 1) \o anew(m.value)
               \o ReplaceSrcsets(SubSeq(html, m.stop + 1, Len(html)), amap, pageDir)
  IN with(SrcsetMatch(html))

\* the four rewrites of rewriteHtml, one after the other
RewriteAttributes(html, amap, pageDir) ==
  ReplaceSrcsets(
    ReplaceTags(
      ReplaceTags(
        ReplaceTags(html, <<"<", "l", "i", "n", "k">>, HREF_EQ, NotAssetRefs, amap, pageDir),
        <<"<", "s", "c", "r", "i", "p", "t">>, <<"s", "r", "c", "=">>, InlineRefs, amap, pageDir),
      <<"<", "i", "m", "g">>, <<"s", "r", "c", "=">>, InlineRefs, amap, pageDir),
    amap, pageDir)

\* tags of the input HTML
TagKinds ==
  { [open |-> <<"<", "l", "i", "n", "k">>, attr |-> HREF_EQ], [open |-> <<"<", "s", "c", "r", "i", "p", "t">>, attr |-> <<"s", "r", "c", "=">>],
    [open |-> <<"<", "i", "m", "g">>, attr |-> <<"s", "r", "c", "=">>], [open |-> <<"<", "i", "m", "g">>, attr |-> SRCSET_EQ] }

\* values of href and src attributes
UrlValues == { <<"a">>, <<"/", "a">> }

\* values of srcset attributes
SrcsetValues == { <<"a">>, <<"a", " ", "1", "x", ",", " ", "b", " ", "2", "x">>, <<"a", " ", "1", "x", ",", "b", " ", "2", "x">>, <<"a", " ", " ", "1", "x">> }

\* the page's assetMap: empty, or with a LocalPath for one reference
AssetMaps ==
  { {}, { [key |-> <<"a">>, val |-> <<"_", "a", "s", "s", "e", "t", "s", "/", "x">>] }, { [key |-> <<"b">>, val |-> <<"_", "a", "s", "s", "e", "t", "s", "/", "x">>] } }

\* the text of the attribute, and of the tag that holds it
AttrText(tag) == tag.attr \o <<tag.quote>> \o tag.value \o <<tag.quote>>
TagText(tag) == tag.open \o <<" ">> \o AttrText(tag) \o <<">">>

\* the URLs an attribute holds
AttrUrls(tag) ==
  IF tag.attr = SRCSET_EQ
  THEN { SplitBlanks(Trim(SplitOn(tag.value, ",")[k]))[1] : k \in DOMAIN SplitOn(tag.value, ",") }
  ELSE { tag.value }

NoTag == [open |-> <<>>, attr |-> <<>>, quote |-> "", value |-> <<>>]

TagInit ==
  /\ \E kind \in TagKinds, quote \in QUOTES :
       \E value \in (IF kind.attr = SRCSET_EQ THEN SrcsetValues ELSE UrlValues) :
         rwIn = [open |-> kind.open, attr |-> kind.attr, quote |-> quote, value |-> value]
  /\ rwMap \in AssetMaps
  /\ rwOut = <<>>
  /\ rwPc = "input"

\* rewriteHtml rewrites the attributes of the page /a/
RewriteTags ==
  /\ rwPc = "input"
  /\ rwOut' = RewriteAttributes(TagText(rwIn), rwMap, PageDirOf(<<"a">>))
  /\ rwPc' = "rewritten"
  /\ UNCHANGED <<rwIn, rwMap>>
  /\ UNCHANGED notTag

TagNext == RewriteTags

TagIdle ==
  /\ rwIn = NoTag
  /\ rwMap = {}
  /\ rwOut = <<>>
  /\ rwPc = "idle"

----------------------------------------------------------------------------
\* PageTransformer: the whole transform of scrapeUrls, applied to one document

HEAD_END == <<"<", "/", "h", "e", "a", "d", ">">>
BODY_END == <<"<", "/", "b", "o", "d", "y", ">">>

\* apiInterceptorScript: "<script>", the interceptor's text, "</script>".  The
\* text holds no "<", no "$" and none of the words removeExternalDependencies
\* looks for; "api" stands for it.
API_SCRIPT == <<"<", "s", "c", "r", "i", "p", "t", ">", "a", "p", "i", "<", "/", "s", "c", "r", "i", "p", "t", ">">>

\* hidePopupCSS: "<style>", the rules that hide the popups, "</style>"
HIDE_POPUP_CSS == <<"<", "s", "t", "y", "l", "e", ">", "c", "s", "s", "<", "/", "s", "t", "y", "l", "e", ">">>

\* injectApiInterceptor: before the first "</head>", else before the first "</body>"
injectApiInterceptor(html, pageUrl, pageDir) ==
  IF Includes(html, HEAD_END) THEN ReplaceFirst(html, HEAD_END, API_SCRIPT \o HEAD_END)
  ELSE IF Includes(html, BODY_END) THEN ReplaceFirst(html, BODY_END, API_SCRIPT \o BODY_END)
  ELSE html

\* removeExternalDependencies on a document that holds no script, link or img
\* tag with an http(s) or protocol-relative URL, no script with an id and no
\* WebFont.load call: none of the removal patterns matches, and the popup rules
\* go before the first "</head>"
removeExternalDependencies(html) ==
  IF Includes(html, HEAD_END) THEN ReplaceFirst(html, HEAD_END, HIDE_POPUP_CSS \o HEAD_END)
  ELSE html

\* rewriteHtml, rewriteInternalLinks, injectApiInterceptor,
\* removeExternalDependencies, with the assetMap the downloads gave
PageTransform(html, amap, pageUrl, pageDir, disk) ==
  removeExternalDependencies(
    injectApiInterceptor(
      rewriteInternalLinks(RewriteAttributes(html, amap, pageDir), pageUrl, pageDir, disk),
      pageUrl, pageDir))

\* rendered documents: a tag, with or without a head and a body around it
HeadParts == { <<>>, <<"<", "h", "e", "a", "d", ">", "<", "/", "h", "e", "a", "d", ">">> }
BodyParts == { [open |-> <<>>, close |-> <<>>], [open |-> <<"<", "b", "o", "d", "y", ">">>, close |-> BODY_END] }
PlainTags ==
  { [open |-> k.open, attr |-> k.attr, quote |-> "\"", value |-> <<"a">>] : k \in TagKinds }
    \cup { [open |-> <<"<", "a">>, attr |-> HREF_EQ, quote |-> "\"", value |-> v] : v \in { <<"#", "t">>, <<"/", "b", "/">> } }
Documents ==
  { h \o b.open \o TagText(tag) \o b.close : h \in HeadParts, b \in BodyParts, tag \in PlainTags }

TransformInit ==
  /\ txIn \in Documents
  /\ txMap \in AssetMaps
  /\ txOnce = <<>>
  /\ txTwice = <<>>
  /\ txPc = "input"

\* the page task transforms the rendered document of the page /a
TransformOnce ==
  /\ txPc = "input"
  /\ txOnce' = PageTransform(txIn, txMap, PAGE_A, PageDirOf(<<"a">>), NoDocs)
  /\ txPc' = "once"
  /\ UNCHANGED <<txIn, txMap, txTwice>>
  /\ UNCHANGED notTransform

\* the transform is applied to its own output, assets and disk as they were
TransformAgain ==
  /\ txPc = "once"
  /\ txTwice' = PageTransform(txOnce, txMap, PAGE_A, PageDirOf(<<"a">>), NoDocs)
  /\ txPc' = "twice"
  /\ UNCHANGED <<txIn, txMap, txOnce>>
  /\ UNCHANGED notTransform

TransformNext ==
  \/ TransformOnce
  \/ TransformAgain

TransformIdle ==
  /\ txIn = <<>>
  /\ txMap = {}
  /\ txOnce = <<>>
  /\ txTwice = <<>>
  /\ txPc = "idle"

----------------------------------------------------------------------------
\* CssAssetExtractor: the rewrite of a stylesheet's url() references at the end
\* of rewriteHtml's download phase

URL_OPEN == <<"u", "r", "l", "(">>
CssStops == {"\"", "'", ")"}

\* "url(" at position i of css, in either case (the i flag)
UrlOpenAt(css, i) ==
  /\ i + 3 <= Len(css)
  /\ css[i] \in {"u", "U"}
  /\ css[i + 1] \in {"r", "R"}
  /\ css[i + 2] \in {"l", "L"}
  /\ css[i + 3] = "("

\* the first match of /url\(["']?([^"')]+)["']?\)/ in css
CssMatch(css) ==
  LET from(i) ==
        LET v0 == i + Len(URL_OPEN)
            v == IF v0 <= Len(css) /\ css[v0] \in QUOTES THEN v0 + 1 ELSE v0
            e == v - 1 + FirstOf(SubSeq(css, v, Len(css)), CssStops)
            stop == IF e <= Len(css) /\ css[e] = ")" THEN e
                    ELSE IF e + 1 <= Len(css) /\ css[e + 1] = ")" THEN e + 1
                    ELSE 0
        IN [found |-> stop # 0 /\ e > v, start |-> i, stop |-> stop,
            match |-> SubSeq(css, i, stop), ref |-> SubSeq(css, v, e - 1)]
      starts == { i \in 1..Len(css) : UrlOpenAt(css, i) /\ from(i).found }
  IN IF starts = {}
     THEN [found |-> FALSE, start |-> 0, stop |-> 0, match |-> <<>>, ref |-> <<>>]
     ELSE from(CHOOSE i \in starts : \A g \in starts : i <= g)

\* the references the callback returns the match for
CssSkipped(trimmedUrl) ==
  StartsWith(trimmedUrl, <<"d", "a", "t", "a", ":">>) \/ StartsWith(trimmedUrl, <<"#">>)

\* assetMap.get(k), "" standing for undefined
MapFind(amap, k) == IF MapHas(amap, k) THEN MapGet(amap, k) ELSE <<>>

\* assetMap.get(trimmedUrl) || assetMap.get(new URL(trimmedUrl, cssUrl).href):
\* threw is TRUE where new URL throws
LocalAssetPath(trimmedUrl, amap, cssUrl) ==
  LET second(u) ==
        IF u.valid THEN [threw |-> FALSE, path |-> MapFind(amap, u.href)]
        ELSE [threw |-> TRUE, path |-> <<>>]
  IN IF MapFind(amap, trimmedUrl) # <<>>
     THEN [threw |-> FALSE, path |-> MapFind(amap, trimmedUrl)]
     ELSE second(ResolveUrl(trimmedUrl, cssUrl))

\* path.relative(cssDir, path.join(OUT, localAssetPath))
RelativeToCss(cssLocalPath, localAssetPath) ==
  PathRelative(DropLast(NormWalk(<<>>, OUT \o SplitSlash(cssLocalPath))),
               NormWalk(<<>>, OUT \o SplitSlash(localAssetPath)))

\* the callback of the url() rewrite, for a call that does not throw
RewriteCssRef(match, ref, amap, cssUrl, cssLocalPath) ==
  LET to(path) ==
        IF path # <<>>
        THEN URL_OPEN \o <<"\"">> \o RelativeToCss(cssLocalPath, path) \o <<"\"", ")">>
        ELSE match
  IN IF CssSkipped(Trim(ref)) THEN match
     ELSE to(LocalAssetPath(Trim(ref), amap, cssUrl).path)

\* updatedCss.replace(/url\(...\)/gi, callback)
RECURSIVE RewriteCss(_, _, _, _)
RewriteCss(css, amap, cssUrl, cssLocalPath) ==
  LET with(m) ==
        IF ~m.found THEN css
        ELSE SubSeq(css, 1, m.start - 1)
               \o RewriteCssRef(m.match, m.ref, amap, cssUrl, cssLocalPath)
               \o RewriteCss(SubSeq(css, m.stop + 1, Len(css)), amap, cssUrl, cssLocalPath)
  IN with(CssMatch(css))

\* the callback throws for one of the references of css
RECURSIVE CssThrows(_, _, _)
CssThrows(css, amap, cssUrl) ==
  LET with(m) ==
        /\ m.found
        /\ \/ ~CssSkipped(Trim(m.ref)) /\ LocalAssetPath(Trim(m.ref), amap, cssUrl).threw
           \/ CssThrows(SubSeq(css, m.stop + 1, Len(css)), amap, cssUrl)
  IN with(CssMatch(css))

\* where downloadAsset stored the stylesheet
CSS_LOCAL == ASSETS \o <<"s", ".", "c", "s", "s">>

\* stylesheet texts
CssTexts ==
  { <<"b", ":", "u", "r", "l", "(", "f", ")", ";">>,
    <<"b", ":", "u", "r", "l", "(", "\"", "f", "\"", ")", ";">>,
    <<"b", ":", "u", "r", "l", "(", "'", "f", "'", ")", ";">>,
    <<"b", ":", "u", "r", "l", "(", " ", "f", " ", ")", ";">>,
    <<"b", ":", "u", "r", "l", "(", "g", ")", ";">>,
    <<"b", ":", "U", "R", "L", "(", "f", ")", ";">>,
    <<"b", ":", "u", "r", "l", "(", "f", ")", ";", "d", ":", "u", "r", "l", "(", "g", ")", ";">>,
    <<"b", ":", "u", "r", "l", "(", "d", "a", "t", "a", ":", ",", ")", ";">>,
    <<"b", ":", "u", "r", "l", "(", "#", "f", ")", ";">>,
    <<"b", ":", "c", ";">> }

\* asset maps: reference -> LocalPath
CssMaps ==
  { {},
    { [key |-> <<"f">>, val |-> ASSETS \o <<"g">>] },
    { [key |-> <<"f">>, val |-> ASSETS \o <<"g">>], [key |-> <<"g">>, val |-> ASSETS \o <<"h">>] },
    { [key |-> A_F, val |-> ASSETS \o <<"f">>] } }

\* the URL the stylesheet was referenced by: absolute, or root-relative
CssUrls == { A_CSS, <<"/", "s", ".", "c", "s", "s">> }

CssInit ==
  /\ cssIn \in CssTexts
  /\ cssMap \in CssMaps
  /\ cssUrlIn \in CssUrls
  /\ cssOnce = <<>>
  /\ cssTwice = <<>>
  /\ cssPc = "input"

\* the url() rewrite of one stylesheet
RewriteOnce ==
  /\ cssPc = "input"
  /\ IF CssThrows(cssIn, cssMap, cssUrlIn)
     THEN cssPc' = "threw" /\ UNCHANGED cssOnce
     ELSE /\ cssOnce' = RewriteCss(cssIn, cssMap, cssUrlIn, CSS_LOCAL)
          /\ cssPc' = "once"
  /\ UNCHANGED <<cssIn, cssMap, cssUrlIn, cssTwice>>
  /\ UNCHANGED notCss

\* the rewrite of the rewritten text, with the same map
RewriteAgain ==
  /\ cssPc = "once"
  /\ IF CssThrows(cssOnce, cssMap, cssUrlIn)
     THEN cssPc' = "threw again" /\ UNCHANGED cssTwice
     ELSE /\ cssTwice' = RewriteCss(cssOnce, cssMap, cssUrlIn, CSS_LOCAL)
          /\ cssPc' = "twice"
  /\ UNCHANGED <<cssIn, cssMap, cssUrlIn, cssOnce>>
  /\ UNCHANGED notCss

CssNext ==
  \/ RewriteOnce
  \/ RewriteAgain

CssIdle ==
  /\ cssIn = <<>>
  /\ cssMap = {}
  /\ cssUrlIn = <<>>
  /\ cssOnce = <<>>
  /\ cssTwice = <<>>
  /\ cssPc = "idle"

----------------------------------------------------------------------------
\* One page task whose document links one stylesheet: the downloads of
\* rewriteHtml, its CSS rewrite, and the page's result

\* the trimmed url() references of a stylesheet text, data: and # ones left out
RECURSIVE CssRefsOf(_)
CssRefsOf(css) ==
  LET with(m) ==
        IF ~m.found THEN <<>>
        ELSE (IF CssSkipped(Trim(m.ref)) THEN <<>> ELSE <<Trim(m.ref)>>)
               \o CssRefsOf(SubSeq(css, m.stop + 1, Len(css)))
  IN with(CssMatch(css))

\* a Set keeps the first occurrence of each element
RECURSIVE Distinct(_)
Distinct(seq) ==
  IF seq = <<>> THEN <<>>
  ELSE LET front == Distinct(SubSeq(seq, 1, Len(seq) - 1))
           last == seq[Len(seq)]
       IN IF \E i \in DOMAIN front : front[i] = last THEN front ELSE Append(front, last)

\* extractAssetsFromCss, for a text without @import rules
extractAssetsFromCss(cssContent) == Distinct(CssRefsOf(cssContent))

\* the href of the document's <link rel="stylesheet">: absolute, root-relative,
\* page-relative
SheetHrefs == { A_CSS, <<"/", "s", ".", "c", "s", "s">>, <<"s", ".", "c", "s", "s">> }

\* outcomes of a fetch
FetchOutcomes == {"throws", "not ok", "ok"}

SheetInit ==
  /\ shHref \in SheetHrefs
  /\ shCss \in CssTexts
  /\ shPc = "link"
  /\ shMemo = {}
  /\ shFiles = {}
  /\ shMap = {}
  /\ shCssFiles = {}
  /\ shRest = <<>>
  /\ shLog = {}
  /\ shResult = "none"
  /\ shIndex = FALSE

\* downloadAsset(url, pageUrl) for the stylesheet, and the callback up to the
\* loop over the stylesheet's references
DownloadSheet ==
  /\ shPc = "link"
  /\ \E outcome \in FetchOutcomes :
       LET with(s) ==
             LET path == AssetLocalPath(s.pathname, CT_CSS)
             IN IF s.kind = "fetch" /\ outcome = "ok"
                THEN /\ shMemo' = MapSet(shMemo, s.abs, path)
                     /\ shFiles' = MapSet(shFiles, path, shCss)
                     /\ shMap' = MapSet(shMap, shHref, path)
                     /\ shLog' = shLog \cup {[url |-> s.abs, outcome |-> outcome]}
                     /\ IF IsCssRef(shHref, path)
                        THEN /\ shCssFiles' = {[path |-> path, content |-> shCss, url |-> shHref]}
                             /\ shRest' = extractAssetsFromCss(shCss)
                        ELSE UNCHANGED <<shCssFiles, shRest>>
                ELSE /\ shLog' = IF s.kind = "fetch"
                                  THEN shLog \cup {[url |-> s.abs, outcome |-> outcome]}
                                  ELSE shLog
                     /\ UNCHANGED <<shMemo, shFiles, shMap, shCssFiles, shRest>>
       IN with(DownloadSync(shHref, PAGE_A, shMemo))
  /\ shPc' = "refs"
  /\ UNCHANGED <<shHref, shCss, shResult, shIndex>>
  /\ UNCHANGED notSheet

\* const cssAssetPath = await downloadAsset(cssAssetUrl, url) for the next
\* reference of the stylesheet
DownloadCssAsset ==
  /\ shPc = "refs"
  /\ shRest # <<>>
  /\ \E outcome \in FetchOutcomes, ct \in ContentTypes :
       LET ref == Head(shRest)
           with(s) ==
             LET path == AssetLocalPath(s.pathname, ct)
             IN IF s.kind = "fetch"
                THEN /\ shLog' = shLog \cup {[url |-> s.abs, outcome |-> outcome]}
                     /\ IF outcome = "ok"
                        THEN /\ shMemo' = MapSet(shMemo, s.abs, path)
                             /\ shFiles' = MapSet(shFiles, path, <<>>)
                             /\ shMap' = MapSet(shMap, ref, path)
                        ELSE UNCHANGED <<shMemo, shFiles, shMap>>
                ELSE /\ shMap' = IF s.kind = "hit" THEN MapSet(shMap, ref, s.path) ELSE shMap
                     /\ UNCHANGED <<shMemo, shFiles, shLog>>
       IN with(DownloadSync(ref, shHref, shMemo))
  /\ shRest' = Tail(shRest)
  /\ UNCHANGED <<shHref, shCss, shPc, shCssFiles, shResult, shIndex>>
  /\ UNCHANGED notSheet

\* await Promise.all(downloadPromises) is over: the CSS rewrite loop runs; when
\* its callback throws, rewriteHtml rejects and the page task returns ok: false;
\* otherwise the document is written and the task returns ok: true
RewriteSheets ==
  /\ shPc = "refs"
  /\ shRest = <<>>
  /\ IF \E c \in shCssFiles : CssThrows(c.content, shMap, c.url)
     THEN /\ shResult' = "failed"
          /\ UNCHANGED <<shFiles, shIndex>>
     ELSE /\ shFiles' = { [key |-> c.path,
                             val |-> RewriteCss(c.content, shMap, c.url, c.path)] :
                              c \in shCssFiles }
                           \cup { f \in shFiles : \A c \in shCssFiles : c.path # f.key }
          /\ shResult' = "ok"
          /\ shIndex' = TRUE
  /\ shPc' = "done"
  /\ UNCHANGED <<shHref, shCss, shMemo, shMap, shCssFiles, shRest, shLog>>
  /\ UNCHANGED notSheet

SheetNext ==
  \/ DownloadSheet
  \/ DownloadCssAsset
  \/ RewriteSheets

SheetIdle ==
  /\ shHref = <<>>
  /\ shCss = <<>>
  /\ shPc = "idle"
  /\ shMemo = {}
  /\ shFiles = {}
  /\ shMap = {}
  /\ shCssFiles = {}
  /\ shRest = <<>>
  /\ shLog = {}
  /\ shResult = "none"
  /\ shIndex = FALSE

----------------------------------------------------------------------------
\* One call of a link resolver on a document with one href, against a mirror

ABOUT == <<"/", "a", "b", "o", "u", "t", "/">>

\* URL paths of the pages whose directories the mirror can hold
ResolveSite == { <<"/">>, ABOUT, <<"/", "r", "e", "f">> }

\* URL paths of the page whose document is rewritten
ResolvePages == { <<"/">>, ABOUT }

\* the mirrors: for each set of pages, their directories with an index.html
ResolveDisks ==
  { [dir \in { PageDirOf(safeFileName(p)) : p \in ps } |-> <<>>] : ps \in SUBSET ResolveSite }

\* hrefs of each form the resolvers tell apart
ResolveHrefs ==
  { <<>>, <<"#", "t", "o", "p">>, <<"m", "a", "i", "l", "t", "o", ":", "a", "@", "b", ".", "c", "o", "m">>, <<"t", "e", "l", ":", "1">>, <<"j", "a", "v", "a", "s", "c", "r", "i", "p", "t", ":", "v", "o", "i", "d", "(", "0", ")">>, <<"d", "a", "t", "a", ":", ",">>,
    HTTPS \o ELSEWHERE \o ABOUT, HTTP \o ELSEWHERE \o ABOUT,
    ABOUT, BASE \o ABOUT, HTTPS \o SITE \o ABOUT, <<"a", "b", "o", "u", "t", "/">>,
    <<"/", "/", "a", "b", "o", "u", "t", "/">>, <<"/", "/">> \o ELSEWHERE \o ABOUT, <<"r", "e", "f">>, <<"/", "r", "e", "f">>, <<"/", "x", "/">> }

ResolveInit ==
  /\ rsHref \in ResolveHrefs
  /\ rsPage \in ResolvePages
  /\ rsDisk \in ResolveDisks
  /\ rsOut = <<>>
  /\ rsPc = "input"

\* rewriteInternalLinks(html, fullUrl, dir) of scrape.mjs and rescrape-blank.mjs
ResolveMain ==
  /\ rsPc = "input"
  /\ rsOut' = rewriteInternalLinks(DocWith(rsHref), BASE \o rsPage,
                                   PageDirOf(safeFileName(rsPage)), rsDisk)
  /\ rsPc' = "main"
  /\ UNCHANGED <<rsHref, rsPage, rsDisk>>
  /\ UNCHANGED notResolve

\* rewriteInternalLinks(html, filePath) of fix-links.mjs
ResolveRepair ==
  /\ rsPc = "input"
  /\ rsOut' = rewriteInternalLinks_fix(DocWith(rsHref), PageDirOf(safeFileName(rsPage)), rsDisk)
  /\ rsPc' = "repair"
  /\ UNCHANGED <<rsHref, rsPage, rsDisk>>
  /\ UNCHANGED notResolve

ResolveNext ==
  \/ ResolveMain
  \/ ResolveRepair

ResolveIdle ==
  /\ rsHref = <<>>
  /\ rsPage = <<>>
  /\ rsDisk = NoDocs
  /\ rsOut = <<>>
  /\ rsPc = "idle"

----------------------------------------------------------------------------
\* IncompletePageDetector: findBlankPages of rescrape-blank.mjs, on one stored
\* page document that is scanned, re-mirrored when flagged, and scanned again

NL == "\n"
WhiteSpace == {" ", NL}

\* s.trim()
RECURSIVE TrimWs(_)
TrimWs(s) ==
  IF s # <<>> /\ Head(s) \in WhiteSpace THEN TrimWs(Tail(s))
  ELSE IF s # <<>> /\ s[Len(s)] \in WhiteSpace THEN TrimWs(DropLast(s))
  ELSE s

\* content.split('\n').length
LineCount(content) == Cardinality({ i \in 1..Len(content) : content[i] = NL }) + 1

\* the letters b, o, d, y in either case at position i (the i flag)
BodyWordAt(content, i) ==
  /\ i + 3 <= Len(content)
  /\ content[i] \in {"b", "B"}
  /\ content[i + 1] \in {"o", "O"}
  /\ content[i + 2] \in {"d", "D"}
  /\ content[i + 3] \in {"y", "Y"}

\* the group of the first match of /<body[^>]*>([\s\S]*?)<\/body>/i:
\* found is FALSE where content.match returns null
BodyMatch(content) ==
  LET gtFrom(i) == { j \in (i + 5)..Len(content) : content[j] = ">" }
      gt(i) == CHOOSE j \in gtFrom(i) : \A k \in gtFrom(i) : j <= k
      endAt(k) == /\ k + 6 <= Len(content)
                  /\ content[k] = "<" /\ content[k + 1] = "/"
                  /\ BodyWordAt(content, k + 2)
                  /\ content[k + 6] = ">"
      endsFrom(i) == IF gtFrom(i) = {} THEN {}
                     ELSE { k \in (gt(i) + 1)..Len(content) : endAt(k) }
      opens == { i \in 1..Len(content) :
                   content[i] = "<" /\ BodyWordAt(content, i + 1) /\ endsFrom(i) # {} }
      from(i) == [found |-> TRUE,
                  group |-> SubSeq(content, gt(i) + 1,
                                   (CHOOSE k \in endsFrom(i) : \A l \in endsFrom(i) : k <= l) - 1)]
  IN IF opens = {} THEN [found |-> FALSE, group |-> <<>>]
     ELSE from(CHOOSE i \in opens : \A j \in opens : i <= j)

\* bodyMatch && bodyMatch[1] && bodyMatch[1].trim().length > 200
hasBodyContent(content) ==
  LET of(m) == m.found /\ m.group # <<>> /\ Len(TrimWs(m.group)) > 200
  IN of(BodyMatch(content))

CloudflareMarkers ==
  << <<"T", "h", "e", " ", "c", "o", "n", "t", "e", "n", "t", " ", "o", "f", " ", "t", "h", "e", " ", "p", "a", "g", "e", " ", "c", "a", "n", "n", "o", "t", " ", "b", "e", " ", "d", "i", "s", "p", "l", "a", "y", "e", "d">>, <<"J", "u", "s", "t", " ", "a", " ", "m", "o", "m", "e", "n", "t">>, <<"C", "h", "e", "c", "k", "i", "n", "g", " ", "y", "o", "u", "r", " ", "b", "r", "o", "w", "s", "e", "r">> >>

hasCloudflareError(content) ==
  \E k \in DOMAIN CloudflareMarkers : Includes(content, CloudflareMarkers[k])

\* a plausible slip: the line test at 51 and not at 50
IsBlank_Lines51(content) ==
  LineCount(content) < 51 \/ ~hasBodyContent(content) \/ hasCloudflareError(content)

\* lineCount < 50 || !hasBodyContent || hasCloudflareError
IsBlank(content) ==
  LineCount(content) < 50 \/ ~hasBodyContent(content) \/ hasCloudflareError(content)

\* the shapes of stored documents: number of lines, characters of the body
\* region (-1: no body element), challenge marker (0: none), case of the tags
DocShapes ==
  [lines : {1, 49, 50}, body : {-1, 0, 200, 201}, marker : 0..3, upper : BOOLEAN]

Repeat(c, n) == [i \in 1..n |-> c]

\* the document of a shape: the marker, the line breaks, the body element
DocOf(shape) ==
  (IF shape.marker = 0 THEN <<>> ELSE CloudflareMarkers[shape.marker])
    \o Repeat(NL, shape.lines - 1)
    \o (IF shape.body < 0 THEN <<"<", "p", ">">>
        ELSE (IF shape.upper THEN <<"<", "B", "O", "D", "Y", " ", "c", "l", "a", "s", "s", "=", "\"", "b", "\"", ">">> ELSE <<"<", "b", "o", "d", "y", ">">>)
               \o Repeat("x", shape.body)
               \o (IF shape.upper THEN <<"<", "/", "B", "O", "D", "Y", ">">> ELSE <<"<", "/", "b", "o", "d", "y", ">">>))

BlankInit ==
  /\ bpShape \in DocShapes
  /\ bpDoc = DocOf(bpShape)
  /\ bpFlagged = FALSE
  /\ bpScans = 0
  /\ bpPc = "stored"

\* scanDirectory reads the page's index.html and tests it
FindBlank ==
  /\ bpPc = "stored"
  /\ bpFlagged' = IsBlank(bpDoc)
  /\ bpScans' = bpScans + 1
  /\ bpPc' = "scanned"
  /\ UNCHANGED <<bpShape, bpDoc>>
  /\ UNCHANGED notBlank

\* rescrapeUrl of a flagged page writes the document the renderer gave
Remirror ==
  /\ bpPc = "scanned"
  /\ bpFlagged
  /\ bpScans < MaxScans
  /\ \E shape \in DocShapes :
       /\ bpShape' = shape
       /\ bpDoc' = DocOf(shape)
  /\ bpPc' = "stored"
  /\ UNCHANGED <<bpFlagged, bpScans>>
  /\ UNCHANGED notBlank

BlankNext ==
  \/ FindBlank
  \/ Remirror

BlankIdle ==
  /\ bpShape = [lines |-> 0, body |-> 0, marker |-> 0, upper |-> FALSE]
  /\ bpDoc = <<>>
  /\ bpFlagged = FALSE
  /\ bpScans = 0
  /\ bpPc = "idle"

----------------------------------------------------------------------------
\* ApiCapture (the route handler of a page task) and the replay shim that
\* injectApiInterceptor puts into every mirrored document

\* the characters of the URLs below, by code
LowerSeq == <<"a", "b", "c", "d", "e", "f", "g", "h", "i", "j", "k", "l", "m", "n", "o", "p", "q", "r", "s", "t", "u", "v", "w", "x", "y", "z">>
UpperSeq == <<"A", "B", "C", "D", "E", "F", "G", "H", "I", "J", "K", "L", "M", "N", "O", "P", "Q", "R", "S", "T", "U", "V", "W", "X", "Y", "Z">>
DigitSeq == <<"0", "1", "2", "3", "4", "5", "6", "7", "8", "9">>
Punctuation ==
  { <<"%", 37>>, <<"&", 38>>, <<"-", 45>>, <<".", 46>>, <<"/", 47>>, <<":", 58>>,
    <<"=", 61>>, <<"?", 63>>, <<"_", 95>> }

PositionIn(seq, c) == CHOOSE i \in DOMAIN seq : seq[i] = c

\* the byte of an ASCII character: Buffer.from(url) and btoa(url) read the same
\* bytes for such a URL
CharCode(c) ==
  IF c \in LOWER THEN 96 + PositionIn(LowerSeq, c)
  ELSE IF c \in UPPER THEN 64 + PositionIn(UpperSeq, c)
  ELSE IF c \in DIGIT THEN 47 + PositionIn(DigitSeq, c)
  ELSE (CHOOSE p \in Punctuation : p[1] = c)[2]

Base64Alphabet == UpperSeq \o LowerSeq \o DigitSeq \o <<"+", "/">>

\* base64 of a byte sequence
RECURSIVE Base64(_)
Base64(bytes) ==
  LET sextet(n, k) == Base64Alphabet[((n \div (64 ^ (3 - k))) % 64) + 1]
      group(n, used) == [k \in 1..4 |-> IF k <= used THEN sextet(n, k - 1) ELSE "="]
  IN IF bytes = <<>> THEN <<>>
     ELSE IF Len(bytes) = 1 THEN group(bytes[1] * 65536, 2)
     ELSE IF Len(bytes) = 2 THEN group(bytes[1] * 65536 + bytes[2] * 256, 3)
     ELSE group(bytes[1] * 65536 + bytes[2] * 256 + bytes[3], 4)
            \o Base64(SubSeq(bytes, 4, Len(bytes)))

\* .substring(0, 100) of the key
KeyCut == 100

\* Buffer.from(url).toString('base64').replace(/[^a-zA-Z0-9]/g, '_').substring(0, 100)
\* and, in the shim, btoa(url).replace(...).substring(0, 100)
ApiKey(url) ==
  Substring0(Sanitize(Base64([i \in 1..Len(url) |-> CharCode(url[i])]),
                      LOWER \cup UPPER \cup DIGIT), KeyCut)

API_DATA == <<"_", "a", "p", "i", "_", "d", "a", "t", "a">>
JSON_EXT == <<".", "j", "s", "o", "n">>

\* path.join(API_DATA_DIR, apiKey + ".json")
ApiFilePath(url) == OUT \o <<API_DATA, ApiKey(url) \o JSON_EXT>>

WEBFLOW == <<"w", "e", "b", "f", "l", "o", "w">>
WEBFLOW_API_HOST == <<"a", "p", "i", ".", "w", "e", "b", "f", "l", "o", "w", ".", "c", "o", "m">>
WEBFLOW_API_PATH == <<"w", "e", "b", "f", "l", "o", "w", ".", "c", "o", "m", "/", "a", "p", "i">>

\* isWebflowApi of the route handler
isWebflowApi(url, method, resourceType) ==
  \/ Includes(url, WEBFLOW_API_HOST)
  \/ Includes(url, WEBFLOW_API_PATH)
  \/ Includes(url, <<"/", "v", "1", "/", "c", "o", "l", "l", "e", "c", "t", "i", "o", "n", "s", "/">>)
  \/ Includes(url, <<"/", "v", "1", "/", "i", "t", "e", "m", "s", "/">>)
  \/ Includes(url, <<"/", "c", "o", "l", "l", "e", "c", "t", "i", "o", "n", "s", "/">>)
  \/ Includes(url, <<"/", "i", "t", "e", "m", "s", "/">>)
  \/ (Includes(url, <<"w", "e", "b", "f", "l", "o", "w", ".", "c", "o", "m">>) /\ Includes(url, <<"j", "s", "o", "n">>))
  \/ (method = "GET" /\ Includes(url, WEBFLOW) /\ resourceType = "xhr")

\* the test of the shim's fetch and XMLHttpRequest.send
ShimTakes(url) ==
  Includes(url, WEBFLOW_API_HOST) \/ Includes(url, WEBFLOW_API_PATH)

\* '../_api_data/' + cacheKey + '.json', resolved against the document of the
\* page directory
ShimPath(pageDir, url) ==
  NormWalk(<<>>, pageDir \o << <<".", ".">>, API_DATA, ApiKey(url) \o JSON_EXT >>)

\* responseBody.trim().startsWith('{') || ... startsWith('[')
LooksLikeJson(body) ==
  StartsWith(TrimWs(body), <<"{">>) \/ StartsWith(TrimWs(body), <<"[">>)

\* request URLs: a CMS call, a call the capture takes by its path, two calls
\* that agree on their first 75 characters, a script
ApiUrls ==
  { <<"h", "t", "t", "p", "s", ":", "/", "/", "a", "p", "i", ".", "w", "e", "b", "f", "l", "o", "w", ".", "c", "o", "m", "/", "v", "1", "/", "i", "t", "e", "m", "s", "/", "1">>,
    BASE \o <<"/", "i", "t", "e", "m", "s", "/", "1", "?", "c", "=", "4", "2">>,
    <<"h", "t", "t", "p", "s", ":", "/", "/", "a", "p", "i", ".", "w", "e", "b", "f", "l", "o", "w", ".", "c", "o", "m", "/", "a", "a", "a", "a", "a", "a", "a", "a", "a", "a", "a", "a", "a", "a", "a", "a", "a", "a", "a", "a", "a", "a", "a", "a", "a", "a", "a", "a", "a", "a", "a", "a", "a", "a", "a", "a", "a", "a", "a", "a", "a", "a", "a", "a", "a", "a", "a", "a", "a", "a", "a", "1">>,
    <<"h", "t", "t", "p", "s", ":", "/", "/", "a", "p", "i", ".", "w", "e", "b", "f", "l", "o", "w", ".", "c", "o", "m", "/", "a", "a", "a", "a", "a", "a", "a", "a", "a", "a", "a", "a", "a", "a", "a", "a", "a", "a", "a", "a", "a", "a", "a", "a", "a", "a", "a", "a", "a", "a", "a", "a", "a", "a", "a", "a", "a", "a", "a", "a", "a", "a", "a", "a", "a", "a", "a", "a", "a", "a", "a", "2">>,
    BASE \o <<"/", "a", ".", "j", "s">> }

ApiBodies == { <<"{", "1", "}">>, <<" ", "[", "2", "]">>, <<"<", "p", ">">> }

\* URL paths of the pages whose documents carry the shim
ApiPages == { <<"/">>, ABOUT, <<"/", "a", "/", "b", "/">> }

NoReply == [given |-> FALSE, persisted |-> FALSE, live |-> FALSE, body |-> <<>>]

ApiInit ==
  /\ apFiles = {}
  /\ apResponses = {}
  /\ apCaptures = 0
  /\ apWritten = {}
  /\ apReply = NoReply
  /\ apAsked = <<>>
  /\ apFrom = <<>>

\* the route handler for one request of a page that is being mirrored
Intercept ==
  /\ apCaptures < MaxCaptures
  /\ \E url \in ApiUrls, method \in {"GET", "POST"}, resourceType \in {"xhr", "script"},
        body \in ApiBodies, throws \in BOOLEAN :
       IF isWebflowApi(url, method, resourceType) /\ ~throws /\ LooksLikeJson(body)
       THEN /\ apFiles' = MapSet(apFiles, ApiFilePath(url),
                                  [url |-> url, body |-> body, timestamp |-> apCaptures + 1])
            /\ apResponses' = MapSet(apResponses, url, ApiFilePath(url))
            /\ apWritten' = apWritten \cup {[path |-> ApiFilePath(url), url |-> url, body |-> body,
                                               timestamp |-> apCaptures + 1]}
       ELSE UNCHANGED <<apFiles, apResponses, apWritten>>
  /\ apCaptures' = apCaptures + 1
  /\ UNCHANGED <<apReply, apAsked, apFrom>>
  /\ UNCHANGED notApi

\* a mirrored page is viewed offline and its script calls fetch(url): the shim
\* answers from the stored exchange, or hands the call to the network; persisted
\* tells whether the capture had stored an exchange for url by then
Replay ==
  /\ \E url \in ApiUrls, page \in ApiPages :
       LET file == ShimPath(PageDirOf(safeFileName(page)), url)
       IN /\ apAsked' = url
          /\ apFrom' = page
          /\ apReply' = [given |-> TRUE,
                          persisted |-> MapHas(apResponses, url),
                          live |-> ~(ShimTakes(url) /\ MapHas(apFiles, file)),
                          body |-> IF ShimTakes(url) /\ MapHas(apFiles, file)
                                   THEN MapGet(apFiles, file).body ELSE <<>>]
  /\ UNCHANGED <<apFiles, apResponses, apCaptures, apWritten>>
  /\ UNCHANGED notApi

ApiNext ==
  \/ Intercept
  \/ Replay

ApiIdle ==
  /\ apFiles = {}
  /\ apResponses = {}
  /\ apCaptures = 0
  /\ apWritten = {}
  /\ apReply = NoReply
  /\ apAsked = <<>>
  /\ apFrom = <<>>

----------------------------------------------------------------------------
\* The asset directory over several runs: each run of scrape.mjs or of
\* rescrape-blank.mjs starts with an empty downloadedAssets and the files the
\* runs before it left

JSDELIVR == <<"c", "d", "n", ".", "j", "s", "d", "e", "l", "i", "v", "r", ".", "n", "e", "t">>
MAIN_CSS == <<"/", "c", "s", "s", "/", "m", "a", "i", "n", ".", "c", "s", "s">>

\* absolute asset URLs that downloadAsset accepts: they differ in host, in
\* query, in a character the sanitizer replaces, beyond the cut of the name
StoredUrls ==
  { BASE \o MAIN_CSS,
    BASE \o MAIN_CSS \o <<"?", "v", "=", "2">>,
    HTTPS \o JSDELIVR \o MAIN_CSS,
    BASE \o <<"/", "a", "-", "b", ".", "j", "s">>,
    BASE \o <<"/", "a", "_", "b", ".", "j", "s">>,
    BASE \o <<"/", "a", "a", "a", "a", "a", "a", "a", "a", "a", "a", "a", "a", "a", "a", "a", "a", "a", "a", "a", "a", "a", "a", "a", "a", "a", "a", "a", "a", "a", "a", "a", "a", "a", "a", "a", "a", "a", "a", "a", "a", "a", "a", "a", "a", "a", "a", "a", "a", "a", "a", "1">>,
    BASE \o <<"/", "a", "a", "a", "a", "a", "a", "a", "a", "a", "a", "a", "a", "a", "a", "a", "a", "a", "a", "a", "a", "a", "a", "a", "a", "a", "a", "a", "a", "a", "a", "a", "a", "a", "a", "a", "a", "a", "a", "a", "a", "a", "a", "a", "a", "a", "a", "a", "a", "a", "a", "2">>,
    BASE \o <<"/", "f">> }

Scripts == {"scrape", "rescrape"}

\* filename of downloadAsset, relative to OUT, in the script that runs
LocalPathIn(script, pathname, contentType) ==
  IF script = "scrape" THEN AssetLocalPath(pathname, contentType)
  ELSE AssetLocalPath_rescrape(pathname, contentType)

CacheInit ==
  /\ csFiles = {}
  /\ csMemo = {}
  /\ csRun = 1
  /\ csScript \in Scripts
  /\ csStores = 0
  /\ csLog = {}

\* one call of downloadAsset in the current run, from the resolution of the URL
\* to the return: a registered URL is returned from downloadedAssets, any other is
\* fetched and, when the answer is ok, written and registered
StoreAsset ==
  /\ csStores < MaxStores
  /\ \E url \in StoredUrls, ct \in ContentTypes, outcome \in FetchOutcomes :
       LET with(s) ==
             LET path == LocalPathIn(csScript, s.pathname, ct)
             IN IF s.kind = "fetch" /\ outcome = "ok"
                THEN /\ csFiles' = MapSet(csFiles, path, [abs |-> s.abs, run |-> csRun])
                     /\ csMemo' = MapSet(csMemo, s.abs, path)
                     /\ csLog' = csLog \cup
                          {[run |-> csRun, script |-> csScript, abs |-> s.abs, ct |-> ct,
                            path |-> path,
                            onDisk |-> MapHas(csFiles, path),
                            before |-> IF MapHas(csFiles, path) THEN MapGet(csFiles, path)
                                       ELSE [abs |-> <<>>, run |-> 0]]}
                ELSE UNCHANGED <<csFiles, csMemo, csLog>>
       IN with(DownloadSync(url, PAGE_A, csMemo))
  /\ csStores' = csStores + 1
  /\ UNCHANGED <<csRun, csScript>>
  /\ UNCHANGED notCache

\* the process ends and one of the two scripts is started over the same mirror
NextAssetRun ==
  /\ csRun < MaxAssetRuns
  /\ csRun' = csRun + 1
  /\ csMemo' = {}
  /\ csScript' \in Scripts
  /\ UNCHANGED <<csFiles, csStores, csLog>>
  /\ UNCHANGED notCache

CacheNext ==
  \/ StoreAsset
  \/ NextAssetRun

CacheIdle ==
  /\ csFiles = {}
  /\ csMemo = {}
  /\ csRun = 0
  /\ csScript = "none"
  /\ csStores = 0
  /\ csLog = {}

----------------------------------------------------------------------------
\* The page directories of the tasks of one pool

\* distinct URLs of the site (the origin test ignores "www."): a path with and
\* without its final slash, with a query, on the host without "www."
PoolUrlStrings ==
  { BASE \o <<"/", "a">>,
    BASE \o <<"/", "a", "/">>,
    BASE \o <<"/", "a", "?", "x">>,
    HTTPS \o SITE \o <<"/", "a">>,
    BASE \o <<"/", "b">> }

PoolLists ==
  { l \in UNION { [1..k -> PoolUrlStrings] : k \in 1..MaxPoolLen } :
      \A i, j \in DOMAIN l : i # j => l[i] # l[j] }

\* const rel = safeFileName(u.pathname); const dir = path.join(OUT, rel)
TaskDir(fullUrl) == PageDirOf(safeFileName(ParseUrl(fullUrl).pathname))

\* tasks the limiter has started and that have not returned
InProgress == { i \in DOMAIN plUrls : plPc[i] \in {"rendering", "written"} }

PoolInit ==
  /\ plUrls \in PoolLists
  /\ plSize \in 1..MaxPoolSize
  /\ plPc = [i \in DOMAIN plUrls |-> "queued"]
  /\ plFiles = {}

\* pLimit(size): the next queued task starts while fewer than size run
PoolStart(i) ==
  /\ plPc[i] = "queued"
  /\ \A j \in DOMAIN plUrls : j < i => plPc[j] # "queued"
  /\ Cardinality(InProgress) < plSize
  /\ plPc' = [plPc EXCEPT ![i] = "rendering"]
  /\ UNCHANGED <<plUrls, plSize, plFiles>>
  /\ UNCHANGED notPool

\* ensureDir(dir); ...; fs.writeFileSync(path.join(dir, "index.html"), html)
PoolWrite(i) ==
  /\ plPc[i] = "rendering"
  /\ plPc' = [plPc EXCEPT ![i] = "written"]
  /\ plFiles' = MapSet(plFiles, TaskDir(plUrls[i]), i)
  /\ UNCHANGED <<plUrls, plSize>>
  /\ UNCHANGED notPool

\* the screenshot, the finally block and the return of the task
PoolReturn(i) ==
  /\ plPc[i] = "written"
  /\ plPc' = [plPc EXCEPT ![i] = "returned"]
  /\ UNCHANGED <<plUrls, plSize, plFiles>>
  /\ UNCHANGED notPool

PoolNext ==
  \E i \in DOMAIN plUrls :
    \/ PoolStart(i)
    \/ PoolWrite(i)
    \/ PoolReturn(i)

PoolIdle ==
  /\ plUrls = <<>>
  /\ plSize = 0
  /\ plPc = <<>>
  /\ plFiles = {}

----------------------------------------------------------------------------
\* A stored page that findBlankPages flags and rescrapeUrl mirrors again

DOT == <<".">>

\* path.dirname of a relative path
Dirname(relativePath) ==
  LET segs == SplitSlash(relativePath)
  IN IF Len(segs) <= 1 THEN DOT ELSE JoinSlash(DropLast(segs))

\* filePathToUrlPath of rescrape-blank.mjs
filePathToUrlPath(filePath) ==
  LET relativePath == PathRelative(OUT, filePath)
      dirPath == Dirname(relativePath)
  IN IF dirPath = DOT \/ dirPath = INDEX \/ relativePath = INDEX \o <<"/">> \o INDEX_HTML
     THEN <<"/">>
     ELSE <<"/">> \o dirPath \o <<"/">>

\* pathnames of page URLs: "/" followed by segments, some of them empty, and
\* the paths that hold the segment "index"
StoredPaths ==
  { <<"/">> \o s : s \in StringsUpTo({"/", "a"}, MaxStoredLen) }
    \cup { <<"/">> \o INDEX, <<"/">> \o INDEX \o <<"/">>,
           <<"/">> \o INDEX \o <<"/", "a">>, <<"/", "a", "/">> \o INDEX }

FoundInit ==
  /\ fpPath \in StoredPaths
  /\ fpFile = <<>>
  /\ fpUrlPath = <<>>
  /\ fpName = <<>>
  /\ fpDir = <<>>
  /\ fpPc = "input"

\* the page of pathname fpPath is mirrored: dir/index.html is written
StorePage ==
  /\ fpPc = "input"
  /\ fpFile' = TargetFileOf(safeFileName(fpPath))
  /\ fpPc' = "stored"
  /\ UNCHANGED <<fpPath, fpUrlPath, fpName, fpDir>>
  /\ UNCHANGED notFound

\* findBlankPages flags the file: urlPath and fullUrl of the entry it pushes
FlagPage ==
  /\ fpPc = "stored"
  /\ fpUrlPath' = filePathToUrlPath(fpFile)
  /\ fpName' = safeFileName(filePathToUrlPath(fpFile))
  /\ fpPc' = "flagged"
  /\ UNCHANGED <<fpPath, fpFile, fpDir>>
  /\ UNCHANGED notFound

\* rescrapeUrl(page.url): the directory it writes index.html into
RescrapePage ==
  /\ fpPc = "flagged"
  /\ fpDir' = PageDirOf(safeFileName(ResolveUrl(fpUrlPath, BASE).pathname))
  /\ fpPc' = "rescraped"
  /\ UNCHANGED <<fpPath, fpFile, fpUrlPath, fpName>>
  /\ UNCHANGED notFound

FoundNext ==
  \/ StorePage
  \/ FlagPage
  \/ RescrapePage

FoundIdle ==
  /\ fpPath = <<>>
  /\ fpFile = <<>>
  /\ fpUrlPath = <<>>
  /\ fpName = <<>>
  /\ fpDir = <<>>
  /\ fpPc = "idle"

PathIdle ==
  /\ urlPath = <<>>
  /\ pathPc = "idle"
  /\ localName = <<>>
  /\ localNameSlash = <<>>

ReportIdle ==
  /\ reportFile = NoFile
  /\ runNo = 0
  /\ lastResults = <<>>
  /\ prevReport = NoFile

InitPath == PathInit /\ ReportIdle /\ BatchIdle /\ AssetIdle /\ LinkIdle /\ TagIdle /\ TransformIdle /\ CssIdle /\ SheetIdle /\ ResolveIdle /\ BlankIdle /\ ApiIdle /\ CacheIdle /\ PoolIdle /\ FoundIdle

SpecPath == InitPath /\ [][PathNext]_vars

InitReport == ReportInit /\ PathIdle /\ BatchIdle /\ AssetIdle /\ LinkIdle /\ TagIdle /\ TransformIdle /\ CssIdle /\ SheetIdle /\ ResolveIdle /\ BlankIdle /\ ApiIdle /\ CacheIdle /\ PoolIdle /\ FoundIdle

SpecReport == InitReport /\ [][ReportNext]_vars

InitBatch == BatchInit /\ PathIdle /\ ReportIdle /\ AssetIdle /\ LinkIdle /\ TagIdle /\ TransformIdle /\ CssIdle /\ SheetIdle /\ ResolveIdle /\ BlankIdle /\ ApiIdle /\ CacheIdle /\ PoolIdle /\ FoundIdle

SpecBatch == InitBatch /\ [][BatchNext]_vars

InitAssets == AssetInit /\ PathIdle /\ ReportIdle /\ BatchIdle /\ LinkIdle /\ TagIdle /\ TransformIdle /\ CssIdle /\ SheetIdle /\ ResolveIdle /\ BlankIdle /\ ApiIdle /\ CacheIdle /\ PoolIdle /\ FoundIdle

SpecAssets == InitAssets /\ [][AssetNext]_vars

InitLinks == LinkInit /\ PathIdle /\ ReportIdle /\ BatchIdle /\ AssetIdle /\ TagIdle /\ TransformIdle /\ CssIdle /\ SheetIdle /\ ResolveIdle /\ BlankIdle /\ ApiIdle /\ CacheIdle /\ PoolIdle /\ FoundIdle

SpecLinks == InitLinks /\ [][LinkNext]_vars

InitTags == TagInit /\ PathIdle /\ ReportIdle /\ BatchIdle /\ AssetIdle /\ LinkIdle /\ TransformIdle /\ CssIdle /\ SheetIdle /\ ResolveIdle /\ BlankIdle /\ ApiIdle /\ CacheIdle /\ PoolIdle /\ FoundIdle

SpecTags == InitTags /\ [][TagNext]_vars

InitTransform == TransformInit /\ AssetIdle /\ BatchIdle /\ LinkIdle /\ TagIdle /\ PathIdle /\ ReportIdle /\ CssIdle /\ SheetIdle /\ ResolveIdle /\ BlankIdle /\ ApiIdle /\ CacheIdle /\ PoolIdle /\ FoundIdle

SpecTransform == InitTransform /\ [][TransformNext]_vars

InitCss == CssInit /\ AssetIdle /\ BatchIdle /\ LinkIdle /\ TagIdle /\ TransformIdle /\ PathIdle /\ ReportIdle /\ SheetIdle /\ ResolveIdle /\ BlankIdle /\ ApiIdle /\ CacheIdle /\ PoolIdle /\ FoundIdle

SpecCss == InitCss /\ [][CssNext]_vars

InitSheet == SheetInit /\ AssetIdle /\ BatchIdle /\ LinkIdle /\ TagIdle /\ TransformIdle /\ CssIdle /\ PathIdle /\ ReportIdle /\ ResolveIdle /\ BlankIdle /\ ApiIdle /\ CacheIdle /\ PoolIdle /\ FoundIdle

SpecSheet == InitSheet /\ [][SheetNext]_vars

InitResolve == ResolveInit /\ AssetIdle /\ BatchIdle /\ LinkIdle /\ TagIdle /\ TransformIdle /\ CssIdle /\ SheetIdle /\ PathIdle /\ ReportIdle /\ BlankIdle /\ ApiIdle /\ CacheIdle /\ PoolIdle /\ FoundIdle

SpecResolve == InitResolve /\ [][ResolveNext]_vars

InitBlank == BlankInit /\ AssetIdle /\ BatchIdle /\ LinkIdle /\ TagIdle /\ TransformIdle /\ CssIdle /\ SheetIdle /\ ResolveIdle /\ PathIdle /\ ReportIdle /\ ApiIdle /\ CacheIdle /\ PoolIdle /\ FoundIdle

SpecBlank == InitBlank /\ [][BlankNext]_vars

InitApi == ApiInit /\ AssetIdle /\ BatchIdle /\ LinkIdle /\ TagIdle /\ TransformIdle /\ CssIdle /\ SheetIdle /\ ResolveIdle /\ BlankIdle /\ PathIdle /\ ReportIdle /\ CacheIdle /\ PoolIdle /\ FoundIdle

SpecApi == InitApi /\ [][ApiNext]_vars

InitCache == CacheInit /\ AssetIdle /\ BatchIdle /\ LinkIdle /\ TagIdle /\ TransformIdle /\ CssIdle /\ SheetIdle /\ ResolveIdle /\ BlankIdle /\ ApiIdle /\ PathIdle /\ ReportIdle /\ PoolIdle /\ FoundIdle

SpecCache == InitCache /\ [][CacheNext]_vars

InitPool == PoolInit /\ AssetIdle /\ BatchIdle /\ LinkIdle /\ TagIdle /\ TransformIdle /\ CssIdle /\ SheetIdle /\ ResolveIdle /\ BlankIdle /\ ApiIdle /\ CacheIdle /\ PathIdle /\ ReportIdle /\ FoundIdle

SpecPool == InitPool /\ [][PoolNext]_vars

InitFound == FoundInit /\ AssetIdle /\ BatchIdle /\ LinkIdle /\ TagIdle /\ TransformIdle /\ CssIdle /\ SheetIdle /\ ResolveIdle /\ BlankIdle /\ ApiIdle /\ CacheIdle /\ PoolIdle /\ PathIdle /\ ReportIdle

SpecFound == InitFound /\ [][FoundNext]_vars

----------------------------------------------------------------------------
\* Claims about the MirrorDriver

\* C5: scrapeUrls yields exactly one result per input URL; an exception raised
\* at any step of one URL's task gives { ok: false, reason } for that URL and
\* the batch is never aborted.
C5_FailureIsolated ==
  /\ batchPc # "rejected"
  /\ batchPc = "returned" =>
       \A i \in Tasks : taskResult[i].set /\ taskResult[i].url = batchUrls[i]

\* C17: a page task that ends with ok: false, whatever step failed, has written
\* no index document for its page.
C17_NoPartialOutput ==
  \A i \in Tasks :
    (taskPc[i] = "fulfilled" /\ ~taskResult[i].ok) => i \notin indexWritten

\* C20: at every moment at most CONCURRENCY page tasks have started and not yet
\* returned a result, and a task starts only after the tasks before it have
\* closed their pages.
C20_BoundedPool ==
  /\ Cardinality(Active) <= CONCURRENCY
  /\ \A i, j \in Tasks : (j < i /\ taskPc[i] # "queued") => j \notin openPages

----------------------------------------------------------------------------
\* Claims about the AssetStore

\* C1: in any interleaving of downloadAsset calls within one run, at most one
\* network fetch is issued for any absolute asset URL, and every caller that
\* gets a non-null result for that URL gets the same LocalPath.
C1_AtMostOneFetch ==
  /\ \A e \in fetches : e.val <= 1
  /\ \A c, d \in callLog :
       (c.abs = d.abs /\ c.path # Null /\ d.path # Null) => c.path = d.path

\* C2: a downloadAsset call whose (url, referer) resolves to an absolute URL the
\* store already holds returns the registered LocalPath, issues no network
\* request and writes nothing to disk.
C2_MemoHit ==
  \A c \in callLog :
    c.stored => (~c.fetched /\ ~c.wrote /\ c.path = c.registered /\ c.path # Null)

\* a call for a stored URL has returned the registered path
C2_Witness ==
  \E c \in callLog : c.stored /\ ~c.fetched /\ c.path = c.registered /\ c.path # Null

----------------------------------------------------------------------------
\* Claims about the LinkResolver and the LinkRepairPass

\* the index.html the link resolver takes the href rendered on page `dir` for
C6_Target(dir) ==
  LET of(targetPath) ==
        IF targetPath = Null THEN <<>> ELSE TargetFileOf(safeFileName(targetPath))
  IN of(TargetPath(rendered[dir].href, rendered[dir].url))

\* the stored document of page `dir` holds a relative link that leads to `file`
C6_PointsAt(dir, file) ==
  LET leads(m) ==
        /\ m.found
        /\ ~StartsWith(m.href, <<"/">>)
        /\ ~StartsWith(m.href, HTTP)
        /\ ~StartsWith(m.href, HTTPS)
        /\ NormWalk(dir, SplitSlash(m.href)) = file
  IN leads(FirstMatch(mirrorDocs[dir]))

\* C6: for same-site pages A and B where A's rendered document holds an href
\* the link resolver treats as internal and that leads to B, mirroring both in
\* either order and then running the repair pass leaves A's stored document
\* with a relative link that points at B's index document.
C6_OrderIndependent ==
  repairsSince >= 1 =>
    \A a, b \in DOMAIN mirrorDocs :
      (a # b /\ C6_Target(a) = Append(b, INDEX_HTML)) =>
        C6_PointsAt(a, Append(b, INDEX_HTML))

\* C7: on an unchanged mirror, a second run of the repair pass writes no file.
C7_RepairIdempotent ==
  repairsSince >= 2 => lastWrites = {}

----------------------------------------------------------------------------
\* Claims about the PageTransformer

\* C10: an attribute (link href, script src, img src, srcset) none of whose
\* URLs has an entry in the page's asset map is in the output of rewriteHtml
\* byte for byte as it was in the input.
C10_UnmappedUntouched ==
  (rwPc = "rewritten" /\ \A u \in AttrUrls(rwIn) : ~MapHas(rwMap, u)) =>
    Includes(rwOut, AttrText(rwIn))

----------------------------------------------------------------------------
\* Claims about the whole page transform

\* C11: applying the page transform to its own output, with the asset store
\* and the disk unchanged, returns that output unchanged.
C11_TransformRerun ==
  txPc = "twice" => txTwice = txOnce

----------------------------------------------------------------------------
\* Claims about the CssAssetExtractor

\* C12: rewriting the already-rewritten stylesheet text with the same map
\* produces no further change.
C12_CssIdempotent ==
  cssPc = "twice" => cssTwice = cssOnce

\* C13: a page links a stylesheet, by an absolute or a root-relative href, whose
\* text references a font relative to the stylesheet; when no fetch fails, both
\* files are in the asset directory afterwards, the stylesheet on disk references
\* the font by the relative path between them, and the page's result is ok.
C13_SecondOrderAssets ==
  (/\ shPc = "done"
   /\ shHref \in {A_CSS, <<"/", "s", ".", "c", "s", "s">>}
   /\ shCss = <<"b", ":", "u", "r", "l", "(", "f", ")", ";">>
   /\ \A e \in shLog : e.outcome = "ok")
    => /\ shResult = "ok"
       /\ \E sheet, font \in shFiles :
            /\ sheet.key # font.key
            /\ sheet.val = <<"b", ":", "u", "r", "l", "(", "\"">> \o RelativeToCss(sheet.key, font.key) \o <<"\"", ")", ";">>

\* C18: an error at the level of an asset or of a reference (a failed download,
\* a url() reference without a local mapping) never fails the page: the page
\* task writes the document and returns ok.
C18_AssetErrorsTolerated ==
  shPc = "done" => shResult = "ok" /\ shIndex

----------------------------------------------------------------------------
\* Claims about the link resolvers

\* the hrefs C14 says are left unchanged
C14_LeftAlone ==
  { <<>>, <<"#", "t", "o", "p">>, <<"m", "a", "i", "l", "t", "o", ":", "a", "@", "b", ".", "c", "o", "m">>, <<"t", "e", "l", ":", "1">>, <<"j", "a", "v", "a", "s", "c", "r", "i", "p", "t", ":", "v", "o", "i", "d", "(", "0", ")">>, <<"d", "a", "t", "a", ":", ",">>,
    HTTPS \o ELSEWHERE \o ABOUT, HTTP \o ELSEWHERE \o ABOUT }

\* C14: in every disk state rewriteInternalLinks leaves an href unchanged when it
\* is empty, starts with #, mailto:, tel:, javascript: or data:, or is an absolute
\* http(s) URL of another origin; and it rewrites href="/about/" to the relative
\* path of about's index document when that document exists.
C14_SkipsAndRewrites ==
  rsPc = "main" =>
    /\ rsHref \in C14_LeftAlone => rsOut = DocWith(rsHref)
    /\ (rsHref = ABOUT /\ Exists(rsDisk, TargetFileOf(<<"a", "b", "o", "u", "t">>)))
         => rsOut = DocWith(PathRelative(PageDirOf(safeFileName(rsPage)),
                                         TargetFileOf(<<"a", "b", "o", "u", "t">>)))

C14_Witness ==
  /\ rsPc = "main"
  /\ rsHref = ABOUT
  /\ Exists(rsDisk, TargetFileOf(<<"a", "b", "o", "u", "t">>))
  /\ rsOut # DocWith(rsHref)

\* C15: a protocol-relative href is never rewritten, by the resolver of the main
\* pass or by the one of the repair pass, in any disk state.
C15_ProtocolRelativeKept ==
  (rsPc \in {"main", "repair"} /\ StartsWith(rsHref, <<"/", "/">>))
    => rsOut = DocWith(rsHref)

\* C16: a resolver rewrites an href only if the index document of the mapped
\* directory exists at that moment, and the value it writes is the relative path
\* from the page's directory to exactly that file.
C16_RewrittenPointsAtExisting ==
  (rsPc \in {"main", "repair"} /\ rsOut # DocWith(rsHref))
    => \E dir \in DOMAIN rsDisk :
         rsOut = DocWith(PathRelative(PageDirOf(safeFileName(rsPage)),
                                      Append(dir, INDEX_HTML)))

\* the number of fetches issued so far for an absolute URL
C19_Fetched(counts, abs) == IF MapHas(counts, abs) THEN MapGet(counts, abs) ELSE 0

\* C19: after downloadAsset has returned null for a URL because its fetch threw
\* or answered with a failure status, no later call of the run issues another
\* request for that URL.
C19_NoRetryOfFailed ==
  [][\A e \in callLog :
       (e.fetched /\ ~e.wrote) => C19_Fetched(fetches', e.abs) = C19_Fetched(fetches, e.abs)]_vars

----------------------------------------------------------------------------
\* Claims about the IncompletePageDetector

----------------------------------------------------------------------------
\* Claims about the API capture and replay

----------------------------------------------------------------------------
\* Claims about the asset directory

\* C24: in a later run over an existing mirror, an asset whose LocalPath names
\* a file an earlier run stored for it is not downloaded again.
C24_CachedCopyTrusted ==
  \A e \in csLog :
    ~(e.onDisk /\ e.before.abs = e.abs /\ e.before.run < e.run)

\* C29: two different absolute asset URLs stored in one run never receive the
\* same LocalPath.
C29_PathsCollisionFree ==
  \A d, e \in csLog :
    (d.run = e.run /\ d.abs # e.abs) => d.path # e.path

\* C30: for every absolute asset URL and every content type, downloadAsset of
\* scrape.mjs and downloadAsset of rescrape-blank.mjs compute the same LocalPath.
C30_ScriptsAgreeOnNames ==
  \A d, e \in csLog :
    (d.abs = e.abs /\ d.ct = e.ct) => d.path = e.path

----------------------------------------------------------------------------
\* Claims about the page directories

\* C25: for a list of distinct URLs of the site and any pool size, two tasks
\* in progress at the same time never write into the same page directory.
C25_DistinctPageDirs ==
  \A i, j \in InProgress :
    i # j => TaskDir(plUrls[i]) # TaskDir(plUrls[j])

----------------------------------------------------------------------------
\* Claims about the two link resolvers

\* C26: for every href, page and state of the mirror, rewriteInternalLinks of
\* fix-links.mjs returns what rewriteInternalLinks of scrape.mjs returns.
C26_RepairAgreesWithMain ==
  rsPc = "repair" =>
    rsOut = rewriteInternalLinks(DocWith(rsHref), BASE \o rsPage,
                                 PageDirOf(safeFileName(rsPage)), rsDisk)

----------------------------------------------------------------------------
\* Claims about filePathToUrlPath

\* C27: for every URL path p stored at f = OUT/safeFileName(p)/index.html,
\* safeFileName(filePathToUrlPath(f)) equals safeFileName(p), and the re-mirror
\* of the flagged page writes into the directory of f.
C27_ReverseOfSafeFileName ==
  /\ fpPc \in {"flagged", "rescraped"} => fpName = safeFileName(fpPath)
  /\ fpPc = "rescraped" => Append(fpDir, INDEX_HTML) = fpFile

----------------------------------------------------------------------------
\* Claims about the report merge

\* the last run's list named every URL once
C3_ListOfDistinctUrls ==
  \A i, j \in DOMAIN lastResults : lastResults[i].url = lastResults[j].url => i = j

\* C3: after the merge, every URL that succeeded in the run is absent from the
\* persisted failure list, and every prior failure entry for a URL that did not
\* succeed is still present, whatever the other URLs of the run did.  Stated
\* for runs whose list names each URL once.
C3_SuccessPruned ==
  (runNo > 0 /\ C3_ListOfDistinctUrls) =>
    /\ \A u \in SuccessUrlsOf(lastResults) : u \notin UrlsOf(reportFile.failed)
    /\ prevReport.exists =>
         \A i \in DOMAIN prevReport.failed :
           prevReport.failed[i].url \notin SuccessUrlsOf(lastResults) =>
             \E j \in DOMAIN reportFile.failed : reportFile.failed[j] = prevReport.failed[i]

\* C28: after the merge of any run, every URL of the previously persisted
\* failure list that did not succeed in the run is still in the persisted list,
\* also when the run had no success and no failure that was not listed.
C28_HistoryKept ==
  (runNo > 0 /\ prevReport.exists) =>
    \A u \in UrlsOf(prevReport.failed) \ SuccessUrlsOf(lastResults) :
      u \in UrlsOf(reportFile.failed)

\* C4: after any sequence of runs over any URL lists, the persisted failure list
\* holds at most one entry per URL.
C4_NoDuplicateEntries ==
  reportFile.exists =>
    \A i, j \in DOMAIN reportFile.failed :
      reportFile.failed[i].url = reportFile.failed[j].url => i = j

----------------------------------------------------------------------------
\* Claims about the PathMapper

C9_Remaining == SplitFirst(SplitFirst(urlPath, "?"), "#")

\* C9: safeFileName drops query and fragment, returns "index" when the
\* remaining path is empty or "/", otherwise the path with one trailing slash
\* and all leading slashes removed; the result is never the empty string and
\* never starts with "/".
C9_NameNeverEmpty ==
  pathPc = "mapped" =>
    /\ localName = IF C9_Remaining \in {<<>>, <<"/">>}
                   THEN INDEX
                   ELSE StripLeadingSlashes(
                          IF EndsWith(C9_Remaining, <<"/">>)
                          THEN DropLast(C9_Remaining) ELSE C9_Remaining)
    /\ localName # <<>>
    /\ ~StartsWith(localName, <<"/">>)

====
